---- MODULE Spec2Model ----
(***************************************************************************)
(* A model of the Forge desktop backend (src-tauri): the compression-level *)
(* lookup tables and size estimators, the external-process executors and   *)
(* the output validator, the ffmpeg / ffprobe / ghostscript operations,    *)
(* the image and PDF library operations, the shared metadata slot, the     *)
(* scheduling of the commands, convert_case, the compress operations,      *)
(* video_to_gif and the metadata window.                                   *)
(*                                                                         *)
(* The subsystems do not interact, so each has its own specification       *)
(* (SpecLookup, SpecExec, SpecOps, SpecLib, SpecStore, SpecSched,          *)
(* SpecText, SpecCmp, SpecGif, SpecWin) over its own variables; the        *)
(* variables of the other subsystems stay at their initial values.         *)
(***************************************************************************)
EXTENDS Integers, Sequences, FiniteSets, TLC

VARIABLES
    level,        \* lookup: the u8 compression ordinal handed to the lookups
    lookupOut,    \* lookup: [fn, value] of the last lookup applied to level
    execReq,      \* executor: [tool, method] of the last executor call
    execProc,     \* executor: what the OS did with the process of that call
    execOut,      \* executor: the Result<Output, String> the call returned
    valOut,       \* executor: the Result<(), String> of validate_output on it
    execCmd,      \* executor: [tool, method, args, argv] of the call whose Command is built
    probeReq,     \* executor: [tool, argv] of the check_available call being served
    probeProc,    \* executor: what the OS did with the process of that call
    probeOut,     \* executor: the bool the last check_available returned, "none" before it
    opPc,         \* operations: per worker "idle", "spawning", "waiting" or "done"
    opName,       \* operations: per worker the operation it runs
    opStep,       \* operations: per worker the tool step it is at
    opResult,     \* operations: per worker the Result the operation returned
    opFailure,    \* operations: per worker how a tool of this call failed, if one did
    opSpawns,     \* operations: per worker the tool steps this call tried to spawn
    paletteMade,  \* operations: per worker whether its palette step wrote the palette
    paletteRead,  \* operations: per worker the palette its GIF process opened
    outputTouched,\* operations: per worker whether a process given its output path ran
    palette,      \* operations: the file /tmp/palette.png: 0 absent, else its writer
    libCall,      \* library operations: the call being served, with its parameters
    libResult,    \* library operations: the Result the call returned
    libOutput,    \* library operations: the file at the call's output path
    libWrote,     \* library operations: whether the call wrote that file
    slot,         \* metadata store: the two halves of the Option<Value> in the Mutex
    storeLock,    \* metadata store: the client that holds the Mutex, 0 when free
    cPc,          \* metadata store: per client its place in set / get
    cVal,         \* metadata store: per client the payload it is storing
    cGot,         \* metadata store: per client the two halves it has read
    cSaw,         \* metadata store: per client the last completed write at its read
    nextId,       \* metadata store: the next payload to be computed
    lastWrite,    \* metadata store: the payload of the last completed write
    delivered,    \* metadata store: the payloads some read has returned
    lost,         \* metadata store: the payloads overwritten before any read returned them
    loopPc,       \* scheduling: the main thread's event loop: "idle", "running" or "blocked"
    loopOp,       \* scheduling: the command the event loop is running, if any
    poolPc,       \* scheduling: per blocking-pool thread "idle", "running" or "blocked"
    poolOp,       \* scheduling: per blocking-pool thread the command whose closure it runs
    metadataWindow, \* scheduling: whether the window labelled "metadata" exists
    textCall,     \* text: the call of convert_case being served, with its parameters
    textResult,   \* text: the Result<String, String> the call returned
    cmpCall,      \* compress: the compress_* call being served, with its parameters
    cmpArgv,      \* compress: the program and arguments of the tool it started, if any
    cmpWritten,   \* compress: the path of the file the call or its tool wrote, if any
    cmpResult,    \* compress: the Result the call returned
    gifCall,      \* video_to_gif: the call being served, with its parameters
    gifPc,        \* video_to_gif: the place of the call's closure
    gifProcs,     \* video_to_gif: the argument lists of the processes it spawned
    gifDisk,      \* video_to_gif: per path what the call and its processes did to it
    gifResult,    \* video_to_gif: the Result<String, String> the call returned
    winOpen,      \* windows: per label the number of open windows that carry it
    winTitle,     \* windows: the title the metadata window was built with
    winPc,        \* windows: "idle", "invoked" (the message is queued) or "done"
    winCall,      \* windows: the parameters of the open_metadata_window call
    winResult,    \* windows: the Result<(), String> the call returned
    winTrace,     \* windows: the window operations the call has carried out
    winEmitted    \* windows: the events the call has emitted

lookupVars == <<level, lookupOut>>

execVars ==
    <<execReq, execProc, execOut, valOut, execCmd, probeReq, probeProc, probeOut>>

opVars == <<opPc, opName, opStep, opResult, opFailure, opSpawns, paletteMade,
           paletteRead, outputTouched, palette>>

libVars == <<libCall, libResult, libOutput, libWrote>>

storeVars == <<slot, storeLock, cPc, cVal, cGot, cSaw, nextId, lastWrite, delivered, lost>>

schedVars == <<loopPc, loopOp, poolPc, poolOp, metadataWindow>>

textVars == <<textCall, textResult>>

cmpVars == <<cmpCall, cmpArgv, cmpWritten, cmpResult>>

gifVars == <<gifCall, gifPc, gifProcs, gifDisk, gifResult>>

winVars == <<winOpen, winTitle, winPc, winCall, winResult, winTrace, winEmitted>>

vars ==
    <<lookupVars, execVars, opVars, libVars, storeVars, schedVars, textVars, cmpVars, gifVars,
      winVars>>

(***************************************************************************)
(* Compression-level lookup tables                                         *)
(***************************************************************************)

\* the largest value of the u8 parameter `level` / `quality_level`
U8Max == 255

U8 == 0..U8Max

\* a mutant of from_u8: the fallback arm picks the medium tier
from_u8_FallbackMedium(lv) ==
    CASE lv = 0 -> "Lossless"
      [] lv = 1 -> "NearLossless"
      [] lv = 2 -> "HighQuality"
      [] lv = 3 -> "MediumQuality"
      [] lv = 4 -> "LowQuality"
      [] OTHER  -> "MediumQuality"

\* CompressionLevel::from_u8
from_u8(lv) ==
    CASE lv = 0 -> "Lossless"
      [] lv = 1 -> "NearLossless"
      [] lv = 2 -> "HighQuality"
      [] lv = 3 -> "MediumQuality"
      [] lv = 4 -> "LowQuality"
      [] OTHER  -> "HighQuality"

\* the variants of enum CompressionLevel
CompressionLevel == {"Lossless", "NearLossless", "HighQuality", "MediumQuality", "LowQuality"}

\* a mutant of jpeg_quality: the qualities of the two middle tiers are swapped
jpeg_quality_MiddleSwapped(lv) ==
    CASE lv = "Lossless"      -> 100
      [] lv = "NearLossless"  -> 95
      [] lv = "HighQuality"   -> 70
      [] lv = "MediumQuality" -> 85
      [] lv = "LowQuality"    -> 50

\* CompressionLevel::jpeg_quality
jpeg_quality(lv) ==
    CASE lv = "Lossless"      -> 100
      [] lv = "NearLossless"  -> 95
      [] lv = "HighQuality"   -> 85
      [] lv = "MediumQuality" -> 70
      [] lv = "LowQuality"    -> 50

\* a mutant of get_crf_value: the fallback arm gives the CRF of level 3
get_crf_value_FallbackMedium(lv) ==
    CASE lv = 0 -> 0
      [] lv = 1 -> 17
      [] lv = 2 -> 23
      [] lv = 3 -> 28
      [] lv = 4 -> 35
      [] OTHER  -> 28

\* video.rs get_crf_value
get_crf_value(lv) ==
    CASE lv = 0 -> 0
      [] lv = 1 -> 17
      [] lv = 2 -> 23
      [] lv = 3 -> 28
      [] lv = 4 -> 35
      [] OTHER  -> 23

\* pdf.rs get_ghostscript_settings
get_ghostscript_settings(lv) ==
    CASE lv = 0 -> "/default"
      [] lv = 1 -> "/prepress"
      [] lv = 2 -> "/printer"
      [] lv = 3 -> "/ebook"
      [] lv = 4 -> "/screen"
      [] OTHER  -> "/printer"

\* the largest file size, in bytes, the model draws
MaxFileSize == 100

\* what std::fs::metadata finds at input_path: no file, or a file of a size
NoSuchFile == [exists |-> FALSE, len |-> 0]

\* the file sizes drawn: an empty file, sizes whose products are not whole, 90
\* (its f64 product with 0.70 is below 63) and the largest size
FileSizes == {0, 1, 3, 90, MaxFileSize}

FilesOnDisk == {NoSuchFile} \cup [exists : {TRUE}, len : FileSizes]

\* a mutant of the match of estimate_pdf_compressed_size: the fallback arm
\* has the factor of the medium tier
pdf_reduction_factor_FallbackMedium(quality_level) ==
    CASE quality_level = 0 -> 95
      [] quality_level = 1 -> 70
      [] quality_level = 2 -> 50
      [] quality_level = 3 -> 30
      [] quality_level = 4 -> 15
      [] OTHER             -> 30

\* the match of estimate_pdf_compressed_size on quality_level: the f64
\* literal, in hundredths
pdf_reduction_factor(quality_level) ==
    CASE quality_level = 0 -> 95
      [] quality_level = 1 -> 70
      [] quality_level = 2 -> 50
      [] quality_level = 3 -> 30
      [] quality_level = 4 -> 15
      [] OTHER             -> 50

\* the match of estimate_video_compressed_size on quality_level: the f64
\* literal, in hundredths
video_reduction_factor(quality_level) ==
    CASE quality_level = 0 -> 110
      [] quality_level = 1 -> 80
      [] quality_level = 2 -> 50
      [] quality_level = 3 -> 30
      [] quality_level = 4 -> 15
      [] OTHER             -> 50

\* the sizes up to 400 whose f64 product with the literal 0.70 rounds to the
\* double just below the whole number it would be in exact arithmetic
\* (90.0 * 0.70 is 62.99999999999999); the products with 0.95, 0.50, 0.30,
\* 0.15, 0.80 and 1.10 of the sizes the model draws round to no such double
ProductBelowWhole(size, hundredths) ==
    hundredths = 70 /\ size \in {90, 170, 180, 330, 340, 350, 360}

\* (original_size as f64 * reduction_factor) as u64: the f64 product, cut to
\* its whole part
estimated_size(original_size, hundredths) ==
    IF ProductBelowWhole(original_size, hundredths)
    THEN (original_size * hundredths) \div 100 - 1
    ELSE (original_size * hundredths) \div 100

\* estimate_pdf_compressed_size
estimate_pdf_compressed_size(file, quality_level) ==
    IF ~file.exists THEN [kind |-> "err", msg |-> "Failed to get file size: {}"]
    ELSE [kind |-> "ok", msg |-> estimated_size(file.len, pdf_reduction_factor(quality_level))]

\* estimate_video_compressed_size
estimate_video_compressed_size(file, quality_level) ==
    IF ~file.exists THEN [kind |-> "err", msg |-> "Failed to get file size: {}"]
    ELSE [kind |-> "ok", msg |-> estimated_size(file.len, video_reduction_factor(quality_level))]

NoLookup == [fn |-> "none", value |-> "none"]

LookupInit ==
    /\ level \in U8
    /\ lookupOut = NoLookup

LookupIdle ==
    /\ level = 0
    /\ lookupOut = NoLookup

CallFromU8 ==
    /\ lookupOut' = [fn |-> "from_u8", value |-> from_u8(level)]
    /\ UNCHANGED level

CallGetCrfValue ==
    /\ lookupOut' = [fn |-> "get_crf_value", value |-> get_crf_value(level)]
    /\ UNCHANGED level

\* compress_image: CompressionLevel::from_u8(quality_level).jpeg_quality()
CallJpegQuality ==
    /\ lookupOut' = [fn |-> "jpeg_quality", value |-> jpeg_quality(from_u8(level))]
    /\ UNCHANGED level

CallGetGhostscriptSettings ==
    /\ lookupOut' = [fn |-> "get_ghostscript_settings",
                     value |-> get_ghostscript_settings(level)]
    /\ UNCHANGED level

CallEstimatePdfCompressedSize ==
    /\ \E file \in FilesOnDisk :
          lookupOut' = [fn |-> "estimate_pdf_compressed_size", file |-> file,
                        value |-> estimate_pdf_compressed_size(file, level)]
    /\ UNCHANGED level

CallEstimateVideoCompressedSize ==
    /\ \E file \in FilesOnDisk :
          lookupOut' = [fn |-> "estimate_video_compressed_size", file |-> file,
                        value |-> estimate_video_compressed_size(file, level)]
    /\ UNCHANGED level

LookupNext ==
    \/ CallFromU8 /\ UNCHANGED <<execVars, opVars, libVars, storeVars, schedVars, textVars, cmpVars, gifVars, winVars>>
    \/ CallGetCrfValue /\ UNCHANGED <<execVars, opVars, libVars, storeVars, schedVars, textVars, cmpVars, gifVars, winVars>>
    \/ CallJpegQuality /\ UNCHANGED <<execVars, opVars, libVars, storeVars, schedVars, textVars, cmpVars, gifVars, winVars>>
    \/ CallGetGhostscriptSettings /\ UNCHANGED <<execVars, opVars, libVars, storeVars, schedVars, textVars, cmpVars, gifVars, winVars>>
    \/ CallEstimatePdfCompressedSize /\ UNCHANGED <<execVars, opVars, libVars, storeVars, schedVars, textVars, cmpVars, gifVars, winVars>>
    \/ CallEstimateVideoCompressedSize /\ UNCHANGED <<execVars, opVars, libVars, storeVars, schedVars, textVars, cmpVars, gifVars, winVars>>


(***************************************************************************)
(* Text.  A String is the sequence of its code points, a byte buffer the   *)
(* sequence of its bytes.                                                  *)
(***************************************************************************)

\* "Command failed: "
CommandFailedPrefix == <<67, 111, 109, 109, 97, 110, 100, 32, 102, 97, 105, 108, 101, 100, 58, 32>>

\* "Failed to execute "
FailedToExecutePrefix == <<70, 97, 105, 108, 101, 100, 32, 116, 111, 32, 101, 120, 101, 99, 117, 116, 101, 32>>

\* ": "
ColonSpace == <<58, 32>>

\* ". Make sure ffmpeg is installed."
MakeSureFfmpegSuffix == <<46, 32, 77, 97, 107, 101, 32, 115, 117, 114, 101, 32, 102, 102, 109, 112, 101, 103, 32, 105, 115, 32, 105, 110, 115, 116, 97, 108, 108, 101, 100, 46>>

\* ". Is it installed? Error: "
IsItInstalledInfix == <<46, 32, 73, 115, 32, 105, 116, 32, 105, 110, 115, 116, 97, 108, 108, 101, 100, 63, 32, 69, 114, 114, 111, 114, 58, 32>>

\* "ffmpeg"
NameFfmpeg == <<102, 102, 109, 112, 101, 103>>

\* "ffprobe"
NameFfprobe == <<102, 102, 112, 114, 111, 98, 101>>

\* "ghostscript"
NameGhostscript == <<103, 104, 111, 115, 116, 115, 99, 114, 105, 112, 116>>

\* "installed"
WordInstalled == <<105, 110, 115, 116, 97, 108, 108, 101, 100>>

\* Display of io::Error: "No such file or directory (os error 2)"
ErrNotFound == <<78, 111, 32, 115, 117, 99, 104, 32, 102, 105, 108, 101, 32, 111, 114, 32, 100, 105, 114, 101, 99, 116, 111, 114, 121, 32, 40, 111, 115, 32, 101, 114, 114, 111, 114, 32, 50, 41>>

\* Display of io::Error: "Permission denied (os error 13)"
ErrPermission == <<80, 101, 114, 109, 105, 115, 115, 105, 111, 110, 32, 100, 101, 110, 105, 101, 100, 32, 40, 111, 115, 32, 101, 114, 114, 111, 114, 32, 49, 51, 41>>

\* the errors a failed spawn is modelled to report
IoErrors == {ErrNotFound, ErrPermission}

\* U+FFFD REPLACEMENT CHARACTER
ReplacementChar == 65533

\* s without its first n elements
Drop(s, n) == SubSeq(s, n + 1, Len(s))

\* t occurs in s as a contiguous run
Contains(s, t) ==
    \E i \in 0..(Len(s) - Len(t)) : SubSeq(s, i + 1, i + Len(t)) = t

\* t is a prefix of s
StartsWith(s, t) == Len(t) <= Len(s) /\ SubSeq(s, 1, Len(t)) = t

\* a UTF-8 continuation byte
IsCont(b) == b \in 128..191

\* the second byte a three-byte lead admits
Second3Ok(lead, b) ==
    CASE lead = 224 -> b \in 160..191
      [] lead = 237 -> b \in 128..159
      [] OTHER      -> IsCont(b)

\* the second byte a four-byte lead admits
Second4Ok(lead, b) ==
    CASE lead = 240 -> b \in 144..191
      [] lead = 244 -> b \in 128..143
      [] OTHER      -> IsCont(b)

RECURSIVE from_utf8_lossy(_)
\* String::from_utf8_lossy: a well-formed sequence decodes to its code point,
\* every maximal ill-formed run of bytes becomes one U+FFFD
from_utf8_lossy(bs) ==
    IF bs = <<>> THEN <<>>
    ELSE LET b == bs[1]
             n == Len(bs)
         IN  CASE b < 128 -> <<b>> \o from_utf8_lossy(Drop(bs, 1))
               [] b \in 194..223 ->
                    IF n >= 2 /\ IsCont(bs[2])
                    THEN <<(b - 192) * 64 + (bs[2] - 128)>> \o from_utf8_lossy(Drop(bs, 2))
                    ELSE <<ReplacementChar>> \o from_utf8_lossy(Drop(bs, 1))
               [] b \in 224..239 ->
                    IF n >= 2 /\ Second3Ok(b, bs[2])
                    THEN IF n >= 3 /\ IsCont(bs[3])
                         THEN <<(b - 224) * 4096 + (bs[2] - 128) * 64 + (bs[3] - 128)>>
                              \o from_utf8_lossy(Drop(bs, 3))
                         ELSE <<ReplacementChar>> \o from_utf8_lossy(Drop(bs, 2))
                    ELSE <<ReplacementChar>> \o from_utf8_lossy(Drop(bs, 1))
               [] b \in 240..244 ->
                    IF n >= 2 /\ Second4Ok(b, bs[2])
                    THEN IF n >= 3 /\ IsCont(bs[3])
                         THEN IF n >= 4 /\ IsCont(bs[4])
                              THEN <<(b - 240) * 262144 + (bs[2] - 128) * 4096
                                     + (bs[3] - 128) * 64 + (bs[4] - 128)>>
                                   \o from_utf8_lossy(Drop(bs, 4))
                              ELSE <<ReplacementChar>> \o from_utf8_lossy(Drop(bs, 3))
                         ELSE <<ReplacementChar>> \o from_utf8_lossy(Drop(bs, 2))
                    ELSE <<ReplacementChar>> \o from_utf8_lossy(Drop(bs, 1))
               [] OTHER -> <<ReplacementChar>> \o from_utf8_lossy(Drop(bs, 1))

\* the UTF-8 bytes of one code point
EncodeChar(c) ==
    CASE c < 128   -> <<c>>
      [] c < 2048  -> <<192 + (c \div 64), 128 + (c % 64)>>
      [] c < 65536 -> <<224 + (c \div 4096), 128 + ((c \div 64) % 64), 128 + (c % 64)>>
      [] OTHER     -> <<240 + (c \div 262144), 128 + ((c \div 4096) % 64),
                        128 + ((c \div 64) % 64), 128 + (c % 64)>>

RECURSIVE AsBytes(_)
\* the bytes a String holds (str::as_bytes)
AsBytes(s) ==
    IF s = <<>> THEN <<>> ELSE EncodeChar(s[1]) \o AsBytes(Drop(s, 1))

(***************************************************************************)
(* The external-process executors and the output validator                 *)
(***************************************************************************)

\* the longest captured stderr the model draws
MaxStderrLen == 2

\* the largest exit code the model draws
MaxExitCode == 1

\* the bytes a captured stderr is drawn from: 'A', a two-byte lead (0xC3), a
\* continuation byte (0xA9) and a byte no UTF-8 text holds (0xFF)
StderrAlphabet == {65, 195, 169, 255}

RECURSIVE SeqsUpTo(_, _)
\* the sequences over S of length at most n
SeqsUpTo(S, n) ==
    IF n = 0 THEN {<<>>}
    ELSE LET shorter == SeqsUpTo(S, n - 1)
         IN  shorter \cup {Append(s, x) : s \in shorter, x \in S}

\* std::process::ExitStatus: an exit code, or the death by a signal
ExitStatuses ==
    [signalled : {FALSE}, code : 0..MaxExitCode] \cup {[signalled |-> TRUE, code |-> 0]}

\* ExitStatus::success
success(st) == ~st.signalled /\ st.code = 0

\* std::process::Output
Outputs ==
    [status : ExitStatuses, stdout : {<<>>, <<65>>},
     stderr : SeqsUpTo(StderrAlphabet, MaxStderrLen)]

NoOutput == [status |-> [signalled |-> FALSE, code |-> 0], stdout |-> <<>>, stderr |-> <<>>]

\* what Command::output() can come back with: the spawn failed with an
\* io::Error, or the process ran to its exit and its output was captured
ProcOutcomes ==
    [spawned : {FALSE}, error : IoErrors, output : {NoOutput}]
    \cup [spawned : {TRUE}, error : {<<>>}, output : Outputs]

NoProc == [spawned |-> FALSE, error |-> <<>>, output |-> NoOutput]

Ok(o) == [kind |-> "ok", output |-> o, msg |-> <<>>]

Err(m) == [kind |-> "err", output |-> NoOutput, msg |-> m]

NoResult == [kind |-> "none", output |-> NoOutput, msg |-> <<>>]

\* a mutant of FfmpegExecutor::execute: a non-zero exit is turned into the
\* executor's own error
FfmpegExecutor_execute_ChecksStatus(outcome) ==
    IF outcome.spawned /\ success(outcome.output.status)
    THEN Ok(outcome.output)
    ELSE Err(FailedToExecutePrefix \o NameFfmpeg \o ColonSpace \o outcome.error
             \o MakeSureFfmpegSuffix)

\* FfmpegExecutor::execute
FfmpegExecutor_execute(outcome) ==
    IF outcome.spawned
    THEN Ok(outcome.output)
    ELSE Err(FailedToExecutePrefix \o NameFfmpeg \o ColonSpace \o outcome.error
             \o MakeSureFfmpegSuffix)

\* FfmpegExecutor::execute_strings
FfmpegExecutor_execute_strings(outcome) ==
    IF outcome.spawned
    THEN Ok(outcome.output)
    ELSE Err(FailedToExecutePrefix \o NameFfmpeg \o ColonSpace \o outcome.error
             \o MakeSureFfmpegSuffix)

\* FfprobeExecutor::execute
FfprobeExecutor_execute(outcome) ==
    IF outcome.spawned
    THEN Ok(outcome.output)
    ELSE Err(FailedToExecutePrefix \o NameFfprobe \o ColonSpace \o outcome.error
             \o MakeSureFfmpegSuffix)

\* FfprobeExecutor::execute_strings
FfprobeExecutor_execute_strings(outcome) ==
    IF outcome.spawned
    THEN Ok(outcome.output)
    ELSE Err(FailedToExecutePrefix \o NameFfprobe \o ColonSpace \o outcome.error
             \o MakeSureFfmpegSuffix)

\* GhostscriptExecutor::execute
GhostscriptExecutor_execute(outcome) ==
    IF outcome.spawned
    THEN Ok(outcome.output)
    ELSE Err(FailedToExecutePrefix \o NameGhostscript \o ColonSpace \o outcome.error
             \o IsItInstalledInfix \o outcome.error)

\* GhostscriptExecutor::execute_strings
GhostscriptExecutor_execute_strings(outcome) ==
    IF outcome.spawned
    THEN Ok(outcome.output)
    ELSE Err(FailedToExecutePrefix \o NameGhostscript \o ColonSpace \o outcome.error
             \o IsItInstalledInfix \o outcome.error)

\* "gs"
ProgramGs == <<103, 115>>

\* "-version"
FlagVersion == <<45, 118, 101, 114, 115, 105, 111, 110>>

\* "--version"
FlagDashDashVersion == <<45, 45, 118, 101, 114, 115, 105, 111, 110>>

\* Command::new
CommandNew(program) == [program |-> program, args |-> <<>>]

\* Command::arg
CommandArg(cmd, arg) == [cmd EXCEPT !.args = Append(@, arg)]

\* the arguments of a list run together with spaces between them
RECURSIVE JoinArgs(_)
JoinArgs(list) ==
    IF list = <<>> THEN <<>>
    ELSE IF Len(list) = 1 THEN list[1]
    ELSE list[1] \o <<32>> \o JoinArgs(Drop(list, 1))

\* a mutant of Command::args: the list is handed over as one command line
CommandArgs_OneLine(cmd, list) ==
    IF list = <<>> THEN cmd ELSE CommandArg(cmd, JoinArgs(list))

RECURSIVE CommandArgs(_, _)
\* Command::args: arg is called on each element of the list, in its order
CommandArgs(cmd, list) ==
    IF list = <<>> THEN cmd
    ELSE CommandArgs(CommandArg(cmd, list[1]), Drop(list, 1))

\* the program and the arguments a process of the Command is started with
Argv(cmd) == <<cmd.program>> \o cmd.args

\* the Command of FfmpegExecutor::execute
FfmpegExecutor_execute_command(args) == CommandArgs(CommandNew(NameFfmpeg), args)

\* the Command of FfmpegExecutor::execute_strings
FfmpegExecutor_execute_strings_command(args) == CommandArgs(CommandNew(NameFfmpeg), args)

\* the Command of FfprobeExecutor::execute
FfprobeExecutor_execute_command(args) == CommandArgs(CommandNew(NameFfprobe), args)

\* the Command of FfprobeExecutor::execute_strings
FfprobeExecutor_execute_strings_command(args) == CommandArgs(CommandNew(NameFfprobe), args)

\* the Command of GhostscriptExecutor::execute
GhostscriptExecutor_execute_command(args) == CommandArgs(CommandNew(ProgramGs), args)

\* the Command of GhostscriptExecutor::execute_strings
GhostscriptExecutor_execute_strings_command(args) == CommandArgs(CommandNew(ProgramGs), args)

\* the Command of FfmpegExecutor::check_available
FfmpegExecutor_check_available_command == CommandArg(CommandNew(NameFfmpeg), FlagVersion)

\* the Command of FfprobeExecutor::check_available
FfprobeExecutor_check_available_command == CommandArg(CommandNew(NameFfprobe), FlagVersion)

\* the Command of GhostscriptExecutor::check_available
GhostscriptExecutor_check_available_command ==
    CommandArg(CommandNew(ProgramGs), FlagDashDashVersion)

\* a mutant of FfmpegExecutor::check_available: the tool must also exit with
\* success
FfmpegExecutor_check_available_ChecksStatus(outcome) ==
    outcome.spawned /\ success(outcome.output.status)

\* FfmpegExecutor::check_available: Command::output().is_ok()
FfmpegExecutor_check_available(outcome) == outcome.spawned

\* FfprobeExecutor::check_available
FfprobeExecutor_check_available(outcome) == outcome.spawned

\* GhostscriptExecutor::check_available
GhostscriptExecutor_check_available(outcome) == outcome.spawned

\* a mutant of validate_output: the message carries stdout
validate_output_Stdout(output) ==
    IF ~success(output.status)
    THEN Err(CommandFailedPrefix \o from_utf8_lossy(output.stdout))
    ELSE Ok(NoOutput)

\* validate_output
validate_output(output) ==
    IF ~success(output.status)
    THEN Err(CommandFailedPrefix \o from_utf8_lossy(output.stderr))
    ELSE Ok(NoOutput)

Tools == {"ffmpeg", "ffprobe", "gs"}

Methods == {"execute", "execute_strings"}

\* the name an executor's error message gives its tool
ToolName(tool) ==
    CASE tool = "ffmpeg"  -> NameFfmpeg
      [] tool = "ffprobe" -> NameFfprobe
      [] tool = "gs"      -> NameGhostscript

\* the dispatch of a CommandExecutor call to the executor's implementation
ExecutorCall(tool, method, outcome) ==
    CASE tool = "ffmpeg" /\ method = "execute" -> FfmpegExecutor_execute(outcome)
      [] tool = "ffmpeg" /\ method = "execute_strings" -> FfmpegExecutor_execute_strings(outcome)
      [] tool = "ffprobe" /\ method = "execute" -> FfprobeExecutor_execute(outcome)
      [] tool = "ffprobe" /\ method = "execute_strings" -> FfprobeExecutor_execute_strings(outcome)
      [] tool = "gs" /\ method = "execute" -> GhostscriptExecutor_execute(outcome)
      [] tool = "gs" /\ method = "execute_strings" -> GhostscriptExecutor_execute_strings(outcome)

\* the dispatch of a CommandExecutor call to the Command its implementation builds
ExecutorCommand(tool, method, args) ==
    CASE tool = "ffmpeg" /\ method = "execute" -> FfmpegExecutor_execute_command(args)
      [] tool = "ffmpeg" /\ method = "execute_strings" -> FfmpegExecutor_execute_strings_command(args)
      [] tool = "ffprobe" /\ method = "execute" -> FfprobeExecutor_execute_command(args)
      [] tool = "ffprobe" /\ method = "execute_strings" -> FfprobeExecutor_execute_strings_command(args)
      [] tool = "gs" /\ method = "execute" -> GhostscriptExecutor_execute_command(args)
      [] tool = "gs" /\ method = "execute_strings" -> GhostscriptExecutor_execute_strings_command(args)

\* the dispatch of check_available to the executor's implementation
CheckAvailableCall(tool, outcome) ==
    CASE tool = "ffmpeg"  -> FfmpegExecutor_check_available(outcome)
      [] tool = "ffprobe" -> FfprobeExecutor_check_available(outcome)
      [] tool = "gs"      -> GhostscriptExecutor_check_available(outcome)

\* the dispatch of check_available to the Command its implementation builds
CheckAvailableCommand(tool) ==
    CASE tool = "ffmpeg"  -> FfmpegExecutor_check_available_command
      [] tool = "ffprobe" -> FfprobeExecutor_check_available_command
      [] tool = "gs"      -> GhostscriptExecutor_check_available_command

\* the longest argument list the model draws
MaxArgs == 2

\* the arguments the lists are drawn from: "-y", "a b" and ""
ArgSamples == {<<45, 121>>, <<97, 32, 98>>, <<>>}

\* the values drawn for the parameter `args`
ArgLists == SeqsUpTo(ArgSamples, MaxArgs)

\* what Command::output() of a version probe can come back with; the
\* captured bytes are dropped with the Output
ProbeOutcomes ==
    {o \in ProcOutcomes : o.output.stdout = <<>> /\ o.output.stderr = <<>>}

NoReq == [tool |-> "none", method |-> "none"]

NoCmd == [tool |-> "none", method |-> "none", args |-> <<>>, argv |-> <<>>]

NoProbe == [tool |-> "none", argv |-> <<>>]

ExecIdle ==
    /\ execReq = NoReq
    /\ execProc = NoProc
    /\ execOut = NoResult
    /\ valOut = NoResult
    /\ execCmd = NoCmd
    /\ probeReq = NoProbe
    /\ probeProc = NoProc
    /\ probeOut = "none"

\* a caller runs executor.execute(args) or executor.execute_strings(args):
\* the Command is built from the list
Execute(tool, method) ==
    /\ execReq = NoReq
    /\ execCmd = NoCmd
    /\ probeReq = NoProbe
    /\ \E args \in ArgLists :
          execCmd' = [tool |-> tool, method |-> method, args |-> args,
                      argv |-> Argv(ExecutorCommand(tool, method, args))]
    /\ UNCHANGED <<execReq, execProc, execOut, valOut, probeReq, probeProc, probeOut>>

\* Command::output() of that call comes back and the call returns; the
\* Command is dropped
ExecuteOutput ==
    /\ execCmd # NoCmd
    /\ \E outcome \in ProcOutcomes :
          /\ execReq' = [tool |-> execCmd.tool, method |-> execCmd.method]
          /\ execProc' = outcome
          /\ execOut' = ExecutorCall(execCmd.tool, execCmd.method, outcome)
          /\ valOut' = NoResult
    /\ execCmd' = NoCmd
    /\ UNCHANGED <<probeReq, probeProc, probeOut>>

\* the caller hands the captured output to validate_output
Validate ==
    /\ execOut.kind = "ok"
    /\ valOut' = validate_output(execOut.output)
    /\ UNCHANGED <<execReq, execProc, execOut, execCmd, probeReq, probeProc, probeOut>>

\* the caller is done with the results of the call and drops them
ExecDrop ==
    /\ execReq # NoReq
    /\ execReq' = NoReq
    /\ execProc' = NoProc
    /\ execOut' = NoResult
    /\ valOut' = NoResult
    /\ UNCHANGED <<execCmd, probeReq, probeProc, probeOut>>

\* a caller runs executor.check_available(): the version probe is run to
\* its exit
CheckAvailable(tool) ==
    /\ execReq = NoReq
    /\ execCmd = NoCmd
    /\ probeReq = NoProbe
    /\ \E outcome \in ProbeOutcomes :
          /\ probeReq' = [tool |-> tool, argv |-> Argv(CheckAvailableCommand(tool))]
          /\ probeProc' = outcome
          /\ probeOut' = IF CheckAvailableCall(tool, outcome) THEN "true" ELSE "false"
    /\ UNCHANGED <<execReq, execProc, execOut, valOut, execCmd>>

\* the caller has the bool; the Command and the Output of the probe are dropped
CheckAvailableReturn ==
    /\ probeReq # NoProbe
    /\ probeReq' = NoProbe
    /\ probeProc' = NoProc
    /\ UNCHANGED <<execReq, execProc, execOut, valOut, execCmd, probeOut>>

ExecNext ==
    \/ \E tool \in Tools, method \in Methods : Execute(tool, method) /\ UNCHANGED <<lookupVars, opVars, libVars, storeVars, schedVars, textVars, cmpVars, gifVars, winVars>>
    \/ Validate /\ UNCHANGED <<lookupVars, opVars, libVars, storeVars, schedVars, textVars, cmpVars, gifVars, winVars>>
    \/ ExecDrop /\ UNCHANGED <<lookupVars, opVars, libVars, storeVars, schedVars, textVars, cmpVars, gifVars, winVars>>
    \/ ExecuteOutput /\ UNCHANGED <<lookupVars, opVars, libVars, storeVars, schedVars, textVars, cmpVars, gifVars, winVars>>
    \/ CheckAvailableReturn /\ UNCHANGED <<lookupVars, opVars, libVars, storeVars, schedVars, textVars, cmpVars, gifVars, winVars>>
    \/ \E tool \in Tools : CheckAvailable(tool) /\ UNCHANGED <<lookupVars, opVars, libVars, storeVars, schedVars, textVars, cmpVars, gifVars, winVars>>

(***************************************************************************)
(* The operations that run an external tool (commands/video.rs and         *)
(* compress_pdf of commands/pdf.rs).  Each runs on a blocking worker; it   *)
(* blocks in Command::output() from the spawn of a process to its exit, so *)
(* the steps of concurrent operations interleave at these two points.      *)
(***************************************************************************)

\* the operations that can be in flight at once
NumWorkers == 2

Workers == 1..NumWorkers

ToolOps ==
    {"trim_video", "strip_audio", "scale_video", "video_to_gif",
     "get_video_metadata", "compress_video", "compress_pdf"}

\* the first tool step of an operation
FirstStep(op) ==
    CASE op = "video_to_gif"       -> "palette"
      [] op = "get_video_metadata" -> "ffprobe"
      [] op = "compress_pdf"       -> "gs"
      [] OTHER                     -> "ffmpeg"

\* the program Command::new is given at a step
Program(step) ==
    CASE step = "ffprobe" -> "ffprobe"
      [] step = "gs"      -> "gs"
      [] OTHER            -> "ffmpeg"

\* the path video_to_gif gives its palette, whatever the call
palette_path(w) == "/tmp/palette.png"

\* whether the process of a step is handed the operation's output path
WritesOutput(op, step) ==
    op \in {"trim_video", "strip_audio", "scale_video", "compress_video", "compress_pdf"}
    \/ (op = "video_to_gif" /\ step = "gif")

\* the format string of the error an operation maps a failed spawn to
SpawnErrorMessage(op, step) ==
    CASE op \in {"trim_video", "strip_audio", "scale_video"} ->
              "Failed to execute ffmpeg: {}. Make sure ffmpeg is installed."
      [] op = "video_to_gif" /\ step = "palette" -> "Failed to generate palette: {}"
      [] op = "video_to_gif" /\ step = "gif" -> "Failed to create GIF: {}"
      [] op = "compress_video" -> "Failed to execute ffmpeg. Is it installed? Error: {}"
      [] op = "compress_pdf" -> "Failed to run ghostscript. Is it installed? Error: {}"

\* the format string of the error an operation makes of a non-zero exit
ExitErrorMessage(op, step) ==
    CASE op \in {"trim_video", "strip_audio", "scale_video"} -> "FFmpeg error: {}"
      [] op = "video_to_gif" /\ step = "palette" -> "Palette generation error: {}"
      [] op = "video_to_gif" /\ step = "gif" -> "GIF creation error: {}"
      [] op = "compress_video" -> "FFmpeg compression failed: {}"
      [] op = "compress_pdf" -> "Ghostscript compression failed: {}"

\* the success payload of an operation
OkPayload(op) ==
    CASE op = "trim_video"         -> "Video trimmed successfully"
      [] op = "strip_audio"        -> "Audio stripped successfully"
      [] op = "scale_video"        -> "Video scaled to {}x{} successfully"
      [] op = "video_to_gif"       -> "Video converted to GIF successfully"
      [] op = "get_video_metadata" -> "VideoMetadata"
      [] op = "compress_video"     -> "VideoCompressionResult"
      [] op = "compress_pdf"       -> "PdfCompressionResult"

OpOk(payload) == [kind |-> "ok", msg |-> payload]

OpErr(m) == [kind |-> "err", msg |-> m]

NoOpResult == [kind |-> "none", msg |-> ""]

NotRead == [read |-> FALSE, owner |-> 0]

OpsIdle ==
    /\ opPc = [w \in Workers |-> "idle"]
    /\ opName = [w \in Workers |-> "none"]
    /\ opStep = [w \in Workers |-> "none"]
    /\ opResult = [w \in Workers |-> NoOpResult]
    /\ opFailure = [w \in Workers |-> "none"]
    /\ opSpawns = [w \in Workers |-> <<>>]
    /\ paletteMade = [w \in Workers |-> FALSE]
    /\ paletteRead = [w \in Workers |-> NotRead]
    /\ outputTouched = [w \in Workers |-> FALSE]
    /\ palette = 0

\* the closure of worker w returns res
Finish(w, res) ==
    /\ opPc' = [opPc EXCEPT ![w] = "done"]
    /\ opResult' = [opResult EXCEPT ![w] = res]

\* the front end invokes op; the worker runs it up to its first Command::output().
\* get_video_metadata first reads the input's file metadata and returns the
\* error when it cannot.
Invoke(w, op) ==
    /\ opPc[w] = "idle"
    /\ opName' = [opName EXCEPT ![w] = op]
    /\ \E inputOk \in BOOLEAN :
          IF op = "get_video_metadata" /\ ~inputOk
          THEN /\ Finish(w, OpErr("Failed to get file metadata: {}"))
               /\ UNCHANGED opStep
          ELSE /\ opPc' = [opPc EXCEPT ![w] = "spawning"]
               /\ opStep' = [opStep EXCEPT ![w] = FirstStep(op)]
               /\ UNCHANGED opResult
    /\ UNCHANGED <<opFailure, opSpawns, paletteMade, paletteRead, outputTouched, palette>>

\* Command::output() returns Err: the process could not be spawned.  Every
\* operation maps the error and returns it with `?`, but get_video_metadata,
\* which skips the probe's data and returns its metadata.
SpawnFail(w) ==
    /\ opPc[w] = "spawning"
    /\ opSpawns' = [opSpawns EXCEPT ![w] = Append(@, opStep[w])]
    /\ opFailure' = [opFailure EXCEPT ![w] = "spawn"]
    /\ IF opName[w] = "get_video_metadata"
       THEN Finish(w, OpOk(OkPayload(opName[w])))
       ELSE Finish(w, OpErr(SpawnErrorMessage(opName[w], opStep[w])))
    /\ UNCHANGED <<opName, opStep, paletteMade, paletteRead, outputTouched, palette>>

\* a mutant of SpawnOk: the process is started with Command::spawn and the
\* operation goes on without waiting for its exit
SpawnOk_NoWait(w) ==
    /\ opPc[w] = "spawning"
    /\ opSpawns' = [opSpawns EXCEPT ![w] = Append(@, opStep[w])]
    /\ Finish(w, OpOk(OkPayload(opName[w])))
    /\ UNCHANGED <<opName, opStep, opFailure, paletteMade, paletteRead, outputTouched, palette>>

\* Command::output() spawns the process and blocks until it exits.  The GIF
\* process opens the palette file that is at the palette path now.
SpawnOk(w) ==
    /\ opPc[w] = "spawning"
    /\ opPc' = [opPc EXCEPT ![w] = "waiting"]
    /\ opSpawns' = [opSpawns EXCEPT ![w] = Append(@, opStep[w])]
    /\ paletteRead' = [paletteRead EXCEPT ![w] =
                          IF opStep[w] = "gif" THEN [read |-> TRUE, owner |-> palette]
                          ELSE @]
    /\ outputTouched' = [outputTouched EXCEPT ![w] = @ \/ WritesOutput(opName[w], opStep[w])]
    /\ UNCHANGED <<opName, opStep, opResult, opFailure, paletteMade, palette>>

\* the process exits with status st and the operation runs on to its next
\* Command::output() or to its return
ToolExit(w, st) ==
    /\ opPc[w] = "waiting"
    /\ (opStep[w] = "gif" /\ paletteRead[w].owner = 0) => ~success(st)
    /\ opFailure' = [opFailure EXCEPT ![w] = IF success(st) THEN @ ELSE "exit"]
    /\ CASE opName[w] = "get_video_metadata" ->
              \* the probe's output is used only if it is a success
              /\ Finish(w, OpOk(OkPayload(opName[w])))
              /\ UNCHANGED <<opStep, paletteMade, palette>>
         [] opName[w] # "get_video_metadata" /\ ~success(st) ->
              /\ Finish(w, OpErr(ExitErrorMessage(opName[w], opStep[w])))
              /\ UNCHANGED <<opStep, paletteMade, palette>>
         [] opName[w] = "video_to_gif" /\ opStep[w] = "palette" /\ success(st) ->
              \* ffmpeg has written the palette; on to the GIF step
              /\ palette' = w
              /\ paletteMade' = [paletteMade EXCEPT ![w] = TRUE]
              /\ opStep' = [opStep EXCEPT ![w] = "gif"]
              /\ opPc' = [opPc EXCEPT ![w] = "spawning"]
              /\ UNCHANGED opResult
         [] opName[w] = "video_to_gif" /\ opStep[w] = "gif" /\ success(st) ->
              \* let _ = std::fs::remove_file(palette_path)
              /\ palette' = 0
              /\ Finish(w, OpOk(OkPayload(opName[w])))
              /\ UNCHANGED <<opStep, paletteMade>>
         [] opName[w] \in {"compress_video", "compress_pdf"} /\ success(st) ->
              \* std::fs::metadata(&output_path) for the size of the output
              /\ \E statOk \in BOOLEAN :
                    Finish(w, IF statOk THEN OpOk(OkPayload(opName[w]))
                              ELSE OpErr("Failed to get output file size: {}"))
              /\ UNCHANGED <<opStep, paletteMade, palette>>
         [] opName[w] \in {"trim_video", "strip_audio", "scale_video"} /\ success(st) ->
              /\ Finish(w, OpOk(OkPayload(opName[w])))
              /\ UNCHANGED <<opStep, paletteMade, palette>>
    /\ UNCHANGED <<opName, opSpawns, paletteRead, outputTouched>>

\* the front end has the result; the worker is free again
Return(w) ==
    /\ opPc[w] = "done"
    /\ opPc' = [opPc EXCEPT ![w] = "idle"]
    /\ opName' = [opName EXCEPT ![w] = "none"]
    /\ opStep' = [opStep EXCEPT ![w] = "none"]
    /\ opResult' = [opResult EXCEPT ![w] = NoOpResult]
    /\ opFailure' = [opFailure EXCEPT ![w] = "none"]
    /\ opSpawns' = [opSpawns EXCEPT ![w] = <<>>]
    /\ paletteMade' = [paletteMade EXCEPT ![w] = FALSE]
    /\ paletteRead' = [paletteRead EXCEPT ![w] = NotRead]
    /\ outputTouched' = [outputTouched EXCEPT ![w] = FALSE]
    /\ UNCHANGED palette

\* the tool steps an operation has from a step on: video_to_gif runs the GIF
\* step after the palette step, every other step is the last one
ToolStepsFrom(step) == IF step = "palette" THEN 2 ELSE 1

\* the most steps the worker of an operation has left before it returns: a
\* spawn and an exit for every tool step to come
StepsLeft(pc, step) ==
    CASE pc = "spawning" -> 2 * ToolStepsFrom(step)
      [] pc = "waiting"  -> 2 * ToolStepsFrom(step) - 1
      [] OTHER           -> 0

OpsNext ==
    \/ \E w \in Workers, op \in ToolOps : Invoke(w, op) /\ UNCHANGED <<lookupVars, execVars, libVars, storeVars, schedVars, textVars, cmpVars, gifVars, winVars>>
    \/ \E w \in Workers : SpawnFail(w) /\ UNCHANGED <<lookupVars, execVars, libVars, storeVars, schedVars, textVars, cmpVars, gifVars, winVars>>
    \/ \E w \in Workers : SpawnOk(w) /\ UNCHANGED <<lookupVars, execVars, libVars, storeVars, schedVars, textVars, cmpVars, gifVars, winVars>>
    \/ \E w \in Workers, st \in ExitStatuses : ToolExit(w, st) /\ UNCHANGED <<lookupVars, execVars, libVars, storeVars, schedVars, textVars, cmpVars, gifVars, winVars>>
    \/ \E w \in Workers : Return(w) /\ UNCHANGED <<lookupVars, execVars, libVars, storeVars, schedVars, textVars, cmpVars, gifVars, winVars>>

(***************************************************************************)
(* The operations served by the image and PDF libraries (commands/image.rs *)
(* and commands/pdf.rs).  Each is one closure that opens its input, works  *)
(* in memory and saves to its output path; none runs a process.            *)
(***************************************************************************)

\* the most pages an input PDF of the model has
MaxPages == 2

\* the longest page_numbers list the model draws
MaxSelLen == 2

\* the values drawn for the i32 parameter `degrees`
DegreesSamples == {-90, 0, 45, 90, 180, 270, 360, 450}

\* a mutant of RustRem: the remainder is taken non-negative
RustRem_NonNegative(a, b) == a % b

\* Rust's i32 remainder a % b for b > 0: the sign of the dividend
RustRem(a, b) == IF a >= 0 THEN a % b ELSE -((-a) % b)

\* a page's Rotate entry: absent, or an integer
NoRotate == [set |-> FALSE, value |-> 0]

Rotate(v) == [set |-> TRUE, value |-> v]

\* what a path can hold: nothing, a file that was there before the call, an
\* image (its orientation against the source image), a PDF (its pages' Rotate)
NoFile == [kind |-> "none", rot |-> 0, pages |-> <<>>]

OldFile == [kind |-> "old", rot |-> 0, pages |-> <<>>]

ImageFile(r) == [kind |-> "image", rot |-> r, pages |-> <<>>]

PdfFile(ps) == [kind |-> "pdf", rot |-> 0, pages |-> ps]

\* the files an input_path can name: one image::open / Document::load cannot
\* read, an image, or a PDF of 1..MaxPages pages
BadInput == [kind |-> "bad", rot |-> 0, pages |-> <<>>]

InputImages == {BadInput, ImageFile(0)}

InputPdfs ==
    {BadInput} \cup
    {PdfFile(ps) : ps \in (SeqsUpTo({NoRotate, Rotate(90)}, MaxPages) \ {<<>>})}

\* Option<Vec<u32>>, and Option<&str> with a string for the list
None == [some |-> FALSE, list |-> <<>>]

Some(l) == [some |-> TRUE, list |-> l]

PageSelections == {None} \cup {Some(l) : l \in SeqsUpTo(1..(MaxPages + 1), MaxSelLen)}

\* Vec::contains
VecContains(l, x) == \E i \in 1..Len(l) : l[i] = x

\* what a closure does to the world: its Result, and the file it saved if any
Outcome(res, wrote, file) == [result |-> res, wrote |-> wrote, file |-> file]

\* DynamicImage::rotate90 / rotate180 / rotate270
rotated(img, degrees) == ImageFile((img.rot + degrees) % 360)

\* a mutant of rotate_image: the wildcard arm saves the image as it is
rotate_image_WildcardPasses(input, degrees, saveOk) ==
    IF input.kind # "image"
    THEN Outcome(OpErr("Failed to open image: {}"), FALSE, NoFile)
    ELSE IF ~saveOk
    THEN Outcome(OpErr("Failed to save rotated image: {}"), FALSE, NoFile)
    ELSE Outcome(OpOk("Image rotated successfully"), TRUE,
                 IF degrees \in {90, 180, 270} THEN rotated(input, degrees) ELSE input)

\* rotate_image
rotate_image(input, degrees, saveOk) ==
    IF input.kind # "image"
    THEN Outcome(OpErr("Failed to open image: {}"), FALSE, NoFile)
    ELSE IF degrees \notin {90, 180, 270}
    THEN Outcome(OpErr("Only 90, 180, and 270 degree rotations are supported"), FALSE, NoFile)
    ELSE IF ~saveOk
    THEN Outcome(OpErr("Failed to save rotated image: {}"), FALSE, NoFile)
    ELSE Outcome(OpOk("Image rotated successfully"), TRUE, rotated(input, degrees))

\* rotate_image_preview: the PNG bytes are returned, no path is written
rotate_image_preview(input, degrees, encodeOk) ==
    IF input.kind # "image"
    THEN Outcome(OpErr("Failed to open image: {}"), FALSE, NoFile)
    ELSE IF degrees \notin {90, 180, 270}
    THEN Outcome(OpErr("Only 90, 180, and 270 degree rotations are supported"), FALSE, NoFile)
    ELSE IF ~encodeOk
    THEN Outcome(OpErr("Failed to encode image: {}"), FALSE, NoFile)
    ELSE Outcome(OpOk("Vec<u8>"), FALSE, NoFile)

\* a mutant of rotate_pdf: the page list is not looked at, every page is rotated
rotate_pdf_RotatesEveryPage(input, degrees, page_numbers, saveOk) ==
    IF input.kind # "pdf"
    THEN Outcome(OpErr("Failed to load PDF: {}"), FALSE, NoFile)
    ELSE IF ~saveOk
    THEN Outcome(OpErr("Failed to save rotated PDF: {}"), FALSE, NoFile)
    ELSE Outcome(OpOk("PDF rotated successfully"), TRUE,
                 PdfFile([page_num \in 1..Len(input.pages) |->
                             Rotate(RustRem(degrees, 360))]))

\* rotate_pdf: the pages to rotate are the listed ones, or all; each page of the
\* document that is among them gets Rotate = degrees % 360
rotate_pdf(input, degrees, page_numbers, saveOk) ==
    IF input.kind # "pdf"
    THEN Outcome(OpErr("Failed to load PDF: {}"), FALSE, NoFile)
    ELSE LET pages == input.pages
             rotation == RustRem(degrees, 360)
             pages_to_rotate ==
                 IF page_numbers.some THEN page_numbers.list
                 ELSE [i \in 1..Len(pages) |-> i]
             doc == [page_num \in 1..Len(pages) |->
                        IF VecContains(pages_to_rotate, page_num)
                        THEN Rotate(rotation)
                        ELSE pages[page_num]]
         IN  IF ~saveOk
             THEN Outcome(OpErr("Failed to save rotated PDF: {}"), FALSE, NoFile)
             ELSE Outcome(OpOk("PDF rotated successfully"), TRUE, PdfFile(doc))

(***************************************************************************)
(* The string parameters of the image operations                           *)
(***************************************************************************)

\* "png"
StrPng == <<112, 110, 103>>

\* "jpg"
StrJpg == <<106, 112, 103>>

\* "jpeg"
StrJpeg == <<106, 112, 101, 103>>

\* "webp"
StrWebp == <<119, 101, 98, 112>>

\* "gif"
StrGif == <<103, 105, 102>>

\* "bmp"
StrBmp == <<98, 109, 112>>

\* "ico"
StrIco == <<105, 99, 111>>

\* "tiff"
StrTiff == <<116, 105, 102, 102>>

\* "horizontal"
StrHorizontal == <<104, 111, 114, 105, 122, 111, 110, 116, 97, 108>>

\* "vertical"
StrVertical == <<118, 101, 114, 116, 105, 99, 97, 108>>

\* char::to_lowercase of one code point: the ASCII capitals, and the two
\* characters outside ASCII whose lower case holds an ASCII letter (U+212A
\* KELVIN SIGN gives "k", U+0130 gives "i" and U+0307); any other character
\* the model draws is its own lower case
LowerChar(c) ==
    CASE c \in 65..90 -> <<c + 32>>
      [] c = 8490     -> <<107>>
      [] c = 304      -> <<105, 775>>
      [] OTHER        -> <<c>>

RECURSIVE to_lowercase(_)
\* str::to_lowercase
to_lowercase(s) ==
    IF s = <<>> THEN <<>> ELSE LowerChar(s[1]) \o to_lowercase(Drop(s, 1))

\* the values drawn for the parameters `format` and `output_format`
FormatSamples ==
    {<<112, 110, 103>>,    \* "png"
     <<80, 78, 71>>,    \* "PNG"
     <<80, 110, 103>>,    \* "Png"
     <<106, 112, 103>>,    \* "jpg"
     <<74, 80, 71>>,    \* "JPG"
     <<106, 112, 101, 103>>,    \* "jpeg"
     <<74, 80, 69, 71>>,    \* "JPEG"
     <<74, 112, 69, 103>>,    \* "JpEg"
     <<119, 101, 98, 112>>,    \* "webp"
     <<87, 69, 66, 80>>,    \* "WEBP"
     <<103, 105, 102>>,    \* "gif"
     <<71, 73, 70>>,    \* "GIF"
     <<98, 109, 112>>,    \* "bmp"
     <<66, 77, 80>>,    \* "BMP"
     <<105, 99, 111>>,    \* "ico"
     <<73, 67, 79>>,    \* "ICO"
     <<304, 67, 79>>,    \* "\u0130CO"
     <<116, 105, 102, 102>>,    \* "tiff"
     <<84, 73, 70, 70>>,    \* "TIFF"
     <<116, 105, 102>>,    \* "tif"
     <<115, 118, 103>>,    \* "svg"
     <<97, 118, 105, 102>>,    \* "avif"
     <<104, 101, 105, 99>>,    \* "heic"
     <<>>,    \* ""
     <<112, 110, 103, 32>>,    \* "png "
     <<32, 112, 110, 103>>,    \* " png"
     <<46, 112, 110, 103>>,    \* ".png"
     <<106, 112, 101>>,    \* "jpe"
     <<112, 110, 103, 103>>}    \* "pngg"

\* the values drawn for the parameter `direction`
DirectionSamples ==
    {<<104, 111, 114, 105, 122, 111, 110, 116, 97, 108>>,    \* "horizontal"
     <<118, 101, 114, 116, 105, 99, 97, 108>>,    \* "vertical"
     <<72, 111, 114, 105, 122, 111, 110, 116, 97, 108>>,    \* "Horizontal"
     <<86, 69, 82, 84, 73, 67, 65, 76>>,    \* "VERTICAL"
     <<>>,    \* ""
     <<104>>,    \* "h"
     <<118>>,    \* "v"
     <<100, 105, 97, 103, 111, 110, 97, 108>>,    \* "diagonal"
     <<104, 111, 114, 105, 122, 111, 110, 116, 97, 108, 32>>,    \* "horizontal "
     <<98, 111, 116, 104>>}    \* "both"

\* the values drawn for the parameter `quality_level`
QualitySamples == {0, 1, 2, 3, 4, 5, U8Max}

\* an image file as an encoder wrote it: its format, and the quality it was
\* encoded with where the encoder was given one
EncodedImage(fmt, quality) ==
    [kind |-> "image", rot |-> 0, pages |-> <<>>, format |-> fmt, quality |-> quality]

\* an image file as fliph / flipv left it
FlippedImage(axis) == [kind |-> "image", rot |-> 0, pages |-> <<>>, flip |-> axis]

\* a file that was created and not written to its end
PartialFile == [kind |-> "partial", rot |-> 0, pages |-> <<>>]

\* a mutant of the match of convert_image: the format is matched as given
convert_image_format_CaseSensitive(format) ==
    CASE format = StrPng              -> "Png"
      [] format \in {StrJpg, StrJpeg} -> "Jpeg"
      [] format = StrWebp             -> "WebP"
      [] format = StrGif              -> "Gif"
      [] format = StrBmp              -> "Bmp"
      [] format = StrIco              -> "Ico"
      [] format = StrTiff             -> "Tiff"
      [] OTHER                        -> "none"

\* the match of convert_image on format.to_lowercase(): the ImageFormat, or
\* "none" for the wildcard arm
convert_image_format(format) ==
    LET f == to_lowercase(format)
    IN  CASE f = StrPng              -> "Png"
          [] f \in {StrJpg, StrJpeg} -> "Jpeg"
          [] f = StrWebp             -> "WebP"
          [] f = StrGif              -> "Gif"
          [] f = StrBmp              -> "Bmp"
          [] f = StrIco              -> "Ico"
          [] f = StrTiff             -> "Tiff"
          [] OTHER                   -> "none"

\* convert_image
convert_image(input, format, saveOk) ==
    IF input.kind # "image"
    THEN Outcome(OpErr("Failed to open image: {}"), FALSE, NoFile)
    ELSE IF convert_image_format(format) = "none"
    THEN Outcome(OpErr("Unsupported format: {}"), FALSE, NoFile)
    ELSE IF ~saveOk
    THEN Outcome(OpErr("Failed to save image: {}"), FALSE, NoFile)
    ELSE Outcome(OpOk("Image converted to {} successfully"), TRUE,
                 EncodedImage(convert_image_format(format), 0))

\* the first match of compress_image on output_format.to_lowercase(): the
\* extension of the output file, or <<>> for the wildcard arm
compress_image_extension(output_format) ==
    LET f == to_lowercase(output_format)
    IN  CASE f \in {StrJpg, StrJpeg} -> StrJpg
          [] f = StrPng              -> StrPng
          [] f = StrWebp             -> StrWebp
          [] OTHER                   -> <<>>

\* the error of a failed encoder in compress_image / estimate_compressed_size
EncodeError(ext) ==
    CASE ext = StrJpg  -> "Failed to encode JPEG: {}"
      [] ext = StrWebp -> "Failed to encode WebP: {}"
      [] ext = StrPng  -> "Failed to encode PNG: {}"

\* the ImageFormat an extension of compress_image stands for
ExtensionFormat(ext) ==
    CASE ext = StrJpg  -> "Jpeg"
      [] ext = StrWebp -> "WebP"
      [] ext = StrPng  -> "Png"

\* compress_image: the output file is created (File::create, or inside
\* save_with_format), the image is encoded into it, and its size is read back
compress_image(input, quality_level, output_format, createOk, encodeOk, statOk) ==
    LET ext == compress_image_extension(output_format)
        compression == from_u8(quality_level)
    IN  IF input.kind # "image"
        THEN Outcome(OpErr("Failed to open image: {}"), FALSE, NoFile)
        ELSE IF ext = <<>>
        THEN Outcome(OpErr("Unsupported format: {}"), FALSE, NoFile)
        ELSE IF ~createOk
        THEN Outcome(OpErr(IF ext = StrJpg THEN "Failed to create output file: {}"
                           ELSE EncodeError(ext)), FALSE, NoFile)
        ELSE IF ~encodeOk
        THEN Outcome(OpErr(EncodeError(ext)), TRUE, PartialFile)
        ELSE LET file == EncodedImage(ExtensionFormat(ext),
                                      IF ext = StrJpg THEN jpeg_quality(compression) ELSE 0)
             IN  IF ~statOk
                 THEN Outcome(OpErr("Failed to get file metadata: {}"), TRUE, file)
                 ELSE Outcome(OpOk("CompressionResult"), TRUE, file)

\* estimate_compressed_size: the image is encoded into a buffer in memory
estimate_compressed_size(input, quality_level, output_format, encodeOk) ==
    LET f == to_lowercase(output_format)
    IN  IF input.kind # "image"
        THEN Outcome(OpErr("Failed to open image: {}"), FALSE, NoFile)
        ELSE IF f \notin {StrJpg, StrJpeg, StrWebp, StrPng}
        THEN Outcome(OpErr("Unsupported format: {}"), FALSE, NoFile)
        ELSE IF ~encodeOk
        THEN Outcome(OpErr(EncodeError(compress_image_extension(output_format))),
                     FALSE, NoFile)
        ELSE Outcome(OpOk("u64"), FALSE, NoFile)

\* the match of flip_image / flip_image_preview on direction.as_str()
flip_axis(direction) ==
    CASE direction = StrHorizontal -> "horizontal"
      [] direction = StrVertical   -> "vertical"
      [] OTHER                     -> "none"

\* flip_image
flip_image(input, direction, saveOk) ==
    IF input.kind # "image"
    THEN Outcome(OpErr("Failed to open image: {}"), FALSE, NoFile)
    ELSE IF flip_axis(direction) = "none"
    THEN Outcome(OpErr("Direction must be 'horizontal' or 'vertical'"), FALSE, NoFile)
    ELSE IF ~saveOk
    THEN Outcome(OpErr("Failed to save flipped image: {}"), FALSE, NoFile)
    ELSE Outcome(OpOk("Image flipped successfully"), TRUE, FlippedImage(flip_axis(direction)))

\* flip_image_preview: the PNG bytes are returned, no path is written
flip_image_preview(input, direction, encodeOk) ==
    IF input.kind # "image"
    THEN Outcome(OpErr("Failed to open image: {}"), FALSE, NoFile)
    ELSE IF flip_axis(direction) = "none"
    THEN Outcome(OpErr("Direction must be 'horizontal' or 'vertical'"), FALSE, NoFile)
    ELSE IF ~encodeOk
    THEN Outcome(OpErr("Failed to encode image: {}"), FALSE, NoFile)
    ELSE Outcome(OpOk("Vec<u8>"), FALSE, NoFile)

\* the values drawn for the parameter `crop`
CropSamples == {[x |-> 0, y |-> 0, width |-> 1, height |-> 1],
                [x |-> 9, y |-> 9, width |-> 0, height |-> 0]}

\* DynamicImage::crop_imm, the rectangle kept with the image
CroppedImage(img, crop) == [kind |-> "image", rot |-> img.rot, pages |-> <<>>, crop |-> crop]

\* crop_image
crop_image(input, crop, saveOk) ==
    IF input.kind # "image"
    THEN Outcome(OpErr("Failed to open image: {}"), FALSE, NoFile)
    ELSE IF ~saveOk
    THEN Outcome(OpErr("Failed to save cropped image: {}"), FALSE, NoFile)
    ELSE Outcome(OpOk("Image cropped successfully"), TRUE, CroppedImage(input, crop))

\* strip_metadata: the image is saved again as it was decoded
strip_metadata(input, saveOk) ==
    IF input.kind # "image"
    THEN Outcome(OpErr("Failed to open image: {}"), FALSE, NoFile)
    ELSE IF ~saveOk
    THEN Outcome(OpErr("Failed to save image: {}"), FALSE, NoFile)
    ELSE Outcome(OpOk("Metadata stripped successfully"), TRUE, input)

\* the most input PDFs of a merge
MaxMergeInputs == 3

\* the files the input paths of a merge name
MergeDocs == {BadInput, PdfFile(<<NoRotate>>), PdfFile(<<Rotate(90), NoRotate>>)}

\* Vec<String> input_paths, by the files they name
MergeInputs == SeqsUpTo(MergeDocs, MaxMergeInputs)

\* Vec<PageSelection>
PageSelectionSamples == [pdf_path : MergeDocs, page_numbers : {<<1>>, <<2, 1>>}]

MergeSelections == SeqsUpTo(PageSelectionSamples, MaxMergeInputs)

RECURSIVE MergeLoop(_, _)
\* the loop of merge_pdfs over input_paths with merged_doc so far: the pages
\* of each document are added in turn; a document that does not load ends the
\* closure with the error
MergeLoop(input_paths, merged_doc) ==
    IF input_paths = <<>> THEN [ok |-> TRUE, doc |-> merged_doc]
    ELSE IF input_paths[1].kind # "pdf" THEN [ok |-> FALSE, doc |-> merged_doc]
    ELSE MergeLoop(Tail(input_paths), merged_doc \o input_paths[1].pages)

\* a mutant of merge_pdfs: when a document does not load, what was merged so
\* far is saved before the error is returned
merge_pdfs_SavesPartial(input_paths, saveOk) ==
    LET merged == MergeLoop(input_paths, <<>>)
    IN  IF ~merged.ok
        THEN Outcome(OpErr("Failed to load PDF {}: {}"), TRUE, PdfFile(merged.doc))
        ELSE IF ~saveOk
        THEN Outcome(OpErr("Failed to save merged PDF: {}"), FALSE, NoFile)
        ELSE Outcome(OpOk("PDFs merged successfully"), TRUE, PdfFile(merged.doc))

\* merge_pdfs
merge_pdfs(input_paths, saveOk) ==
    LET merged == MergeLoop(input_paths, <<>>)
    IN  IF ~merged.ok
        THEN Outcome(OpErr("Failed to load PDF {}: {}"), FALSE, NoFile)
        ELSE IF ~saveOk
        THEN Outcome(OpErr("Failed to save merged PDF: {}"), FALSE, NoFile)
        ELSE Outcome(OpOk("PDFs merged successfully"), TRUE, PdfFile(merged.doc))

RECURSIVE SelectedPages(_, _)
\* the inner loop of merge_pdfs_with_pages: the listed pages the document has,
\* in the order of the list
SelectedPages(pages, page_numbers) ==
    IF page_numbers = <<>> THEN <<>>
    ELSE (IF page_numbers[1] \in 1..Len(pages) THEN <<pages[page_numbers[1]]>> ELSE <<>>)
            \o SelectedPages(pages, Tail(page_numbers))

RECURSIVE MergeSelectionLoop(_, _)
\* the loop of merge_pdfs_with_pages over page_selections
MergeSelectionLoop(page_selections, merged_doc) ==
    IF page_selections = <<>> THEN [ok |-> TRUE, doc |-> merged_doc]
    ELSE IF page_selections[1].pdf_path.kind # "pdf" THEN [ok |-> FALSE, doc |-> merged_doc]
    ELSE MergeSelectionLoop(Tail(page_selections),
                            merged_doc \o SelectedPages(page_selections[1].pdf_path.pages,
                                                        page_selections[1].page_numbers))

\* merge_pdfs_with_pages
merge_pdfs_with_pages(page_selections, saveOk) ==
    LET merged == MergeSelectionLoop(page_selections, <<>>)
    IN  IF ~merged.ok
        THEN Outcome(OpErr("Failed to load PDF {}: {}"), FALSE, NoFile)
        ELSE IF ~saveOk
        THEN Outcome(OpErr("Failed to save merged PDF: {}"), FALSE, NoFile)
        ELSE Outcome(OpOk("PDFs merged successfully with page selection"), TRUE,
                     PdfFile(merged.doc))

NoCall == [op |-> "none", input |-> BadInput, degrees |-> 0, page_numbers |-> None]

\* the file at an output path before the call: none, or an older file
PriorFiles == {NoFile, OldFile}

LibInit ==
    /\ libCall = NoCall
    /\ libResult = NoOpResult
    /\ libOutput \in PriorFiles
    /\ libWrote = FALSE

LibIdle ==
    /\ libCall = NoCall
    /\ libResult = NoOpResult
    /\ libOutput = NoFile
    /\ libWrote = FALSE

\* the closure has run: its Result is returned, its file is on disk
Serve(call, out) ==
    /\ libCall' = call
    /\ libResult' = out.result
    /\ libWrote' = out.wrote
    /\ libOutput' = IF out.wrote THEN out.file ELSE libOutput

RotateImage ==
    /\ libCall = NoCall
    /\ \E input \in InputImages, degrees \in DegreesSamples, saveOk \in BOOLEAN :
        Serve([op |-> "rotate_image", input |-> input, degrees |-> degrees,
               page_numbers |-> None],
              rotate_image(input, degrees, saveOk))

RotateImagePreview ==
    /\ libCall = NoCall
    /\ \E input \in InputImages, degrees \in DegreesSamples, encodeOk \in BOOLEAN :
        Serve([op |-> "rotate_image_preview", input |-> input, degrees |-> degrees,
               page_numbers |-> None],
              rotate_image_preview(input, degrees, encodeOk))

RotatePdf ==
    /\ libCall = NoCall
    /\ \E input \in InputPdfs, degrees \in DegreesSamples,
       page_numbers \in PageSelections, saveOk \in BOOLEAN :
        Serve([op |-> "rotate_pdf", input |-> input, degrees |-> degrees,
               page_numbers |-> page_numbers],
              rotate_pdf(input, degrees, page_numbers, saveOk))

\* a call of an image operation that takes a string parameter
ParamCall(op, input, param) == [op |-> op, input |-> input, param |-> param]

ConvertImage ==
    /\ libCall = NoCall
    /\ \E input \in InputImages, format \in FormatSamples, saveOk \in BOOLEAN :
        Serve(ParamCall("convert_image", input, format),
              convert_image(input, format, saveOk))

CompressImage ==
    /\ libCall = NoCall
    /\ \E input \in InputImages, quality_level \in QualitySamples,
          output_format \in FormatSamples,
          createOk \in BOOLEAN, encodeOk \in BOOLEAN, statOk \in BOOLEAN :
        Serve(ParamCall("compress_image", input, output_format),
              compress_image(input, quality_level, output_format,
                             createOk, encodeOk, statOk))

EstimateCompressedSize ==
    /\ libCall = NoCall
    /\ \E input \in InputImages, quality_level \in QualitySamples,
          output_format \in FormatSamples, encodeOk \in BOOLEAN :
        Serve(ParamCall("estimate_compressed_size", input, output_format),
              estimate_compressed_size(input, quality_level, output_format, encodeOk))

FlipImage ==
    /\ libCall = NoCall
    /\ \E input \in InputImages, direction \in DirectionSamples, saveOk \in BOOLEAN :
        Serve(ParamCall("flip_image", input, direction),
              flip_image(input, direction, saveOk))

FlipImagePreview ==
    /\ libCall = NoCall
    /\ \E input \in InputImages, direction \in DirectionSamples, encodeOk \in BOOLEAN :
        Serve(ParamCall("flip_image_preview", input, direction),
              flip_image_preview(input, direction, encodeOk))

CropImage ==
    /\ libCall = NoCall
    /\ \E input \in InputImages, crop \in CropSamples, saveOk \in BOOLEAN :
        Serve([op |-> "crop_image", input |-> input, crop |-> crop],
              crop_image(input, crop, saveOk))

StripMetadata ==
    /\ libCall = NoCall
    /\ \E input \in InputImages, saveOk \in BOOLEAN :
        Serve([op |-> "strip_metadata", input |-> input], strip_metadata(input, saveOk))

MergePdfs ==
    /\ libCall = NoCall
    /\ \E input_paths \in MergeInputs, saveOk \in BOOLEAN :
        Serve([op |-> "merge_pdfs", input_paths |-> input_paths],
              merge_pdfs(input_paths, saveOk))

MergePdfsWithPages ==
    /\ libCall = NoCall
    /\ \E page_selections \in MergeSelections, saveOk \in BOOLEAN :
        Serve([op |-> "merge_pdfs_with_pages", page_selections |-> page_selections],
              merge_pdfs_with_pages(page_selections, saveOk))

\* the front end has the result; its next call names an output path of its own
LibReturn ==
    /\ libCall # NoCall
    /\ libCall' = NoCall
    /\ libResult' = NoOpResult
    /\ libOutput' \in PriorFiles
    /\ libWrote' = FALSE

LibNext ==
    \/ RotateImage /\ UNCHANGED <<lookupVars, execVars, opVars, storeVars, schedVars, textVars, cmpVars, gifVars, winVars>>
    \/ RotateImagePreview /\ UNCHANGED <<lookupVars, execVars, opVars, storeVars, schedVars, textVars, cmpVars, gifVars, winVars>>
    \/ RotatePdf /\ UNCHANGED <<lookupVars, execVars, opVars, storeVars, schedVars, textVars, cmpVars, gifVars, winVars>>
    \/ ConvertImage /\ UNCHANGED <<lookupVars, execVars, opVars, storeVars, schedVars, textVars, cmpVars, gifVars, winVars>>
    \/ CompressImage /\ UNCHANGED <<lookupVars, execVars, opVars, storeVars, schedVars, textVars, cmpVars, gifVars, winVars>>
    \/ EstimateCompressedSize /\ UNCHANGED <<lookupVars, execVars, opVars, storeVars, schedVars, textVars, cmpVars, gifVars, winVars>>
    \/ FlipImage /\ UNCHANGED <<lookupVars, execVars, opVars, storeVars, schedVars, textVars, cmpVars, gifVars, winVars>>
    \/ FlipImagePreview /\ UNCHANGED <<lookupVars, execVars, opVars, storeVars, schedVars, textVars, cmpVars, gifVars, winVars>>
    \/ CropImage /\ UNCHANGED <<lookupVars, execVars, opVars, storeVars, schedVars, textVars, cmpVars, gifVars, winVars>>
    \/ StripMetadata /\ UNCHANGED <<lookupVars, execVars, opVars, storeVars, schedVars, textVars, cmpVars, gifVars, winVars>>
    \/ MergePdfs /\ UNCHANGED <<lookupVars, execVars, opVars, storeVars, schedVars, textVars, cmpVars, gifVars, winVars>>
    \/ MergePdfsWithPages /\ UNCHANGED <<lookupVars, execVars, opVars, storeVars, schedVars, textVars, cmpVars, gifVars, winVars>>
    \/ LibReturn /\ UNCHANGED <<lookupVars, execVars, opVars, storeVars, schedVars, textVars, cmpVars, gifVars, winVars>>

(***************************************************************************)
(* The shared metadata slot: MetadataStore(Mutex<Option<Value>>), managed  *)
(* state created empty in main.  A payload is two words wide, so that a    *)
(* store or a load of it takes two steps; the payloads are numbered 1, 2,  *)
(* ... and 0 stands for None.                                              *)
(***************************************************************************)

\* the commands that can be at the store at once
NumClients == 2

\* the payloads computed in a run
MaxWrites == 2

Clients == 1..NumClients

\* Mutex::new(None): the slot as main creates it
EmptySlot == <<0, 0>>

\* a mutant of the Mutex: lock() never waits
CanLock_NeverWaits == TRUE

\* Mutex::lock returns once no other guard is alive
CanLock == storeLock = 0

StoreInit ==
    /\ slot = EmptySlot
    /\ storeLock = 0
    /\ cPc = [c \in Clients |-> "idle"]
    /\ cVal = [c \in Clients |-> 0]
    /\ cGot = [c \in Clients |-> EmptySlot]
    /\ cSaw = [c \in Clients |-> 0]
    /\ nextId = 1
    /\ lastWrite = 0
    /\ delivered = {}
    /\ lost = {}

\* a command that has computed a metadata payload sets out to store it
StartSet(c) ==
    /\ cPc[c] = "idle"
    /\ nextId <= MaxWrites
    /\ cVal' = [cVal EXCEPT ![c] = nextId]
    /\ nextId' = nextId + 1
    /\ cPc' = [cPc EXCEPT ![c] = "set_lock"]
    /\ UNCHANGED <<slot, storeLock, cGot, cSaw, lastWrite, delivered, lost>>

\* store.0.lock()
SetLock(c) ==
    /\ cPc[c] = "set_lock"
    /\ CanLock
    /\ storeLock' = c
    /\ cPc' = [cPc EXCEPT ![c] = "set_first"]
    /\ UNCHANGED <<slot, cVal, cGot, cSaw, nextId, lastWrite, delivered, lost>>

\* *guard = Some(metadata), first word
SetFirst(c) ==
    /\ cPc[c] = "set_first"
    /\ slot' = [slot EXCEPT ![1] = cVal[c]]
    /\ cPc' = [cPc EXCEPT ![c] = "set_second"]
    /\ UNCHANGED <<storeLock, cVal, cGot, cSaw, nextId, lastWrite, delivered, lost>>

\* *guard = Some(metadata), second word; the guard is dropped.  The payload
\* that was in the slot is gone: there is one slot and no version.
SetSecond(c) ==
    /\ cPc[c] = "set_second"
    /\ slot' = [slot EXCEPT ![2] = cVal[c]]
    /\ storeLock' = 0
    /\ lost' = IF lastWrite # 0 /\ lastWrite \notin delivered
               THEN lost \cup {lastWrite} ELSE lost
    /\ lastWrite' = cVal[c]
    /\ cPc' = [cPc EXCEPT ![c] = "idle"]
    /\ cVal' = [cVal EXCEPT ![c] = 0]
    /\ UNCHANGED <<cGot, cSaw, nextId, delivered>>

\* the metadata window calls get_metadata
StartGet(c) ==
    /\ cPc[c] = "idle"
    /\ cPc' = [cPc EXCEPT ![c] = "get_lock"]
    /\ UNCHANGED <<slot, storeLock, cVal, cGot, cSaw, nextId, lastWrite, delivered, lost>>

\* store.0.lock()
GetLock(c) ==
    /\ cPc[c] = "get_lock"
    /\ CanLock
    /\ storeLock' = c
    /\ cPc' = [cPc EXCEPT ![c] = "get_first"]
    /\ UNCHANGED <<slot, cVal, cGot, cSaw, nextId, lastWrite, delivered, lost>>

\* guard.clone(), first word
GetFirst(c) ==
    /\ cPc[c] = "get_first"
    /\ cGot' = [cGot EXCEPT ![c] = <<slot[1], 0>>]
    /\ cPc' = [cPc EXCEPT ![c] = "get_second"]
    /\ UNCHANGED <<slot, storeLock, cVal, cSaw, nextId, lastWrite, delivered, lost>>

\* guard.clone(), second word; the guard is dropped and the clone returned
GetSecond(c) ==
    /\ cPc[c] = "get_second"
    /\ cGot' = [cGot EXCEPT ![c] = <<@[1], slot[2]>>]
    /\ cSaw' = [cSaw EXCEPT ![c] = lastWrite]
    /\ delivered' = delivered \cup ({cGot[c][1], slot[2]} \ {0})
    /\ storeLock' = 0
    /\ cPc' = [cPc EXCEPT ![c] = "got"]
    /\ UNCHANGED <<slot, cVal, nextId, lastWrite, lost>>

\* the window has the payload
GetReturn(c) ==
    /\ cPc[c] = "got"
    /\ cPc' = [cPc EXCEPT ![c] = "idle"]
    /\ cGot' = [cGot EXCEPT ![c] = EmptySlot]
    /\ cSaw' = [cSaw EXCEPT ![c] = 0]
    /\ UNCHANGED <<slot, storeLock, cVal, nextId, lastWrite, delivered, lost>>

StoreNext ==
    \/ \E c \in Clients : StartSet(c) /\ UNCHANGED <<lookupVars, execVars, opVars, libVars, schedVars, textVars, cmpVars, gifVars, winVars>>
    \/ \E c \in Clients : SetLock(c) /\ UNCHANGED <<lookupVars, execVars, opVars, libVars, schedVars, textVars, cmpVars, gifVars, winVars>>
    \/ \E c \in Clients : SetFirst(c) /\ UNCHANGED <<lookupVars, execVars, opVars, libVars, schedVars, textVars, cmpVars, gifVars, winVars>>
    \/ \E c \in Clients : SetSecond(c) /\ UNCHANGED <<lookupVars, execVars, opVars, libVars, schedVars, textVars, cmpVars, gifVars, winVars>>
    \/ \E c \in Clients : StartGet(c) /\ UNCHANGED <<lookupVars, execVars, opVars, libVars, schedVars, textVars, cmpVars, gifVars, winVars>>
    \/ \E c \in Clients : GetLock(c) /\ UNCHANGED <<lookupVars, execVars, opVars, libVars, schedVars, textVars, cmpVars, gifVars, winVars>>
    \/ \E c \in Clients : GetFirst(c) /\ UNCHANGED <<lookupVars, execVars, opVars, libVars, schedVars, textVars, cmpVars, gifVars, winVars>>
    \/ \E c \in Clients : GetSecond(c) /\ UNCHANGED <<lookupVars, execVars, opVars, libVars, schedVars, textVars, cmpVars, gifVars, winVars>>
    \/ \E c \in Clients : GetReturn(c) /\ UNCHANGED <<lookupVars, execVars, opVars, libVars, schedVars, textVars, cmpVars, gifVars, winVars>>

(***************************************************************************)
(* Scheduling: where the registered commands run.  The front end's invoke  *)
(* messages are handled by the event loop of the main thread.  A command   *)
(* declared `pub fn` runs there, on the main thread; a command declared    *)
(* `pub async fn` runs on the async runtime, and the closure it hands to   *)
(* tokio::task::spawn_blocking on a thread of the blocking pool.           *)
(***************************************************************************)

\* the registered commands declared `pub async fn`, whose body is one
\* spawn_blocking closure
AsyncCommands ==
    {"rotate_image_preview", "rotate_image", "flip_image_preview", "flip_image",
     "convert_image", "get_image_metadata", "strip_metadata_preview", "strip_metadata",
     "crop_image_preview", "crop_image", "compress_image", "estimate_compressed_size",
     "merge_pdfs", "merge_pdfs_with_pages", "rotate_pdf", "extract_text",
     "extract_images", "get_pdf_metadata", "compress_pdf", "estimate_pdf_compressed_size",
     "trim_video", "strip_audio", "scale_video", "video_to_gif", "get_video_metadata",
     "compress_video", "estimate_video_compressed_size", "get_text_metadata"}

\* the registered commands declared `pub fn`
SyncCommands == {"convert_case", "replace_all_text", "open_metadata_window"}

Commands == AsyncCommands \cup SyncCommands

\* a command without `async` is run by the event loop itself
RunsOnEventLoop(cmd) == cmd \in SyncCommands

SchedIdle ==
    /\ loopPc = "idle"
    /\ loopOp = "none"
    /\ poolPc = [t \in Workers |-> "idle"]
    /\ poolOp = [t \in Workers |-> "none"]
    /\ metadataWindow = FALSE

\* the event loop takes an invoke message: it runs a `pub fn` command itself
\* and hands the closure of a `pub async fn` command to a pool thread
Dispatch(cmd) ==
    /\ loopPc = "idle"
    /\ IF RunsOnEventLoop(cmd)
       THEN /\ loopPc' = "running"
            /\ loopOp' = cmd
            /\ UNCHANGED <<poolPc, poolOp>>
       ELSE /\ \E t \in Workers :
                  /\ poolPc[t] = "idle"
                  /\ poolPc' = [poolPc EXCEPT ![t] = "running"]
                  /\ poolOp' = [poolOp EXCEPT ![t] = cmd]
            /\ UNCHANGED <<loopPc, loopOp>>
    /\ UNCHANGED metadataWindow

\* a closure enters a blocking call: file I/O or Command::output()
PoolBlock(t) ==
    /\ poolPc[t] = "running"
    /\ poolPc' = [poolPc EXCEPT ![t] = "blocked"]
    /\ UNCHANGED <<loopPc, loopOp, poolOp, metadataWindow>>

\* the blocking call returns
PoolWake(t) ==
    /\ poolPc[t] = "blocked"
    /\ poolPc' = [poolPc EXCEPT ![t] = "running"]
    /\ UNCHANGED <<loopPc, loopOp, poolOp, metadataWindow>>

\* the closure returns and the command's future resolves
PoolFinish(t) ==
    /\ poolPc[t] = "running"
    /\ poolPc' = [poolPc EXCEPT ![t] = "idle"]
    /\ poolOp' = [poolOp EXCEPT ![t] = "none"]
    /\ UNCHANGED <<loopPc, loopOp, metadataWindow>>

\* convert_case / replace_all_text: computed in memory, then returned
LoopCompute ==
    /\ loopPc = "running"
    /\ loopOp \in {"convert_case", "replace_all_text"}
    /\ loopPc' = "idle"
    /\ loopOp' = "none"
    /\ UNCHANGED <<poolPc, poolOp, metadataWindow>>

\* open_metadata_window, the window exists: show, set_focus, emit, return
OpenExisting ==
    /\ loopPc = "running"
    /\ loopOp = "open_metadata_window"
    /\ metadataWindow
    /\ loopPc' = "idle"
    /\ loopOp' = "none"
    /\ UNCHANGED <<poolPc, poolOp, metadataWindow>>

\* open_metadata_window, no such window: it is built (or the build fails and
\* the error is returned), then the thread sleeps 100 ms before the emit
OpenNew ==
    /\ loopPc = "running"
    /\ loopOp = "open_metadata_window"
    /\ ~metadataWindow
    /\ \E built \in BOOLEAN :
          IF built
          THEN /\ metadataWindow' = TRUE
               /\ loopPc' = "blocked"
               /\ UNCHANGED loopOp
          ELSE /\ loopPc' = "idle"
               /\ loopOp' = "none"
               /\ UNCHANGED metadataWindow
    /\ UNCHANGED <<poolPc, poolOp>>

\* std::thread::sleep returns; emit, return
LoopWake ==
    /\ loopPc = "blocked"
    /\ loopPc' = "idle"
    /\ loopOp' = "none"
    /\ UNCHANGED <<poolPc, poolOp, metadataWindow>>

\* the user closes the metadata window
CloseWindow ==
    /\ metadataWindow
    /\ metadataWindow' = FALSE
    /\ UNCHANGED <<loopPc, loopOp, poolPc, poolOp>>

SchedNext ==
    \/ \E cmd \in Commands : Dispatch(cmd) /\ UNCHANGED <<lookupVars, execVars, opVars, libVars, storeVars, textVars, cmpVars, gifVars, winVars>>
    \/ \E t \in Workers : PoolBlock(t) /\ UNCHANGED <<lookupVars, execVars, opVars, libVars, storeVars, textVars, cmpVars, gifVars, winVars>>
    \/ \E t \in Workers : PoolWake(t) /\ UNCHANGED <<lookupVars, execVars, opVars, libVars, storeVars, textVars, cmpVars, gifVars, winVars>>
    \/ \E t \in Workers : PoolFinish(t) /\ UNCHANGED <<lookupVars, execVars, opVars, libVars, storeVars, textVars, cmpVars, gifVars, winVars>>
    \/ LoopCompute /\ UNCHANGED <<lookupVars, execVars, opVars, libVars, storeVars, textVars, cmpVars, gifVars, winVars>>
    \/ OpenExisting /\ UNCHANGED <<lookupVars, execVars, opVars, libVars, storeVars, textVars, cmpVars, gifVars, winVars>>
    \/ OpenNew /\ UNCHANGED <<lookupVars, execVars, opVars, libVars, storeVars, textVars, cmpVars, gifVars, winVars>>
    \/ LoopWake /\ UNCHANGED <<lookupVars, execVars, opVars, libVars, storeVars, textVars, cmpVars, gifVars, winVars>>
    \/ CloseWindow /\ UNCHANGED <<lookupVars, execVars, opVars, libVars, storeVars, textVars, cmpVars, gifVars, winVars>>

(***************************************************************************)
(* Text: convert_case                                                      *)
(***************************************************************************)

\* "upper"
StrUpper == <<117, 112, 112, 101, 114>>

\* "uppercase"
StrUppercase == <<117, 112, 112, 101, 114, 99, 97, 115, 101>>

\* "lower"
StrLower == <<108, 111, 119, 101, 114>>

\* "lowercase"
StrLowercase == <<108, 111, 119, 101, 114, 99, 97, 115, 101>>

\* "title"
StrTitle == <<116, 105, 116, 108, 101>>

\* "titlecase"
StrTitlecase == <<116, 105, 116, 108, 101, 99, 97, 115, 101>>

\* "camel"
StrCamel == <<99, 97, 109, 101, 108>>

\* "camelcase"
StrCamelcase == <<99, 97, 109, 101, 108, 99, 97, 115, 101>>

\* "pascal"
StrPascal == <<112, 97, 115, 99, 97, 108>>

\* "pascalcase"
StrPascalcase == <<112, 97, 115, 99, 97, 108, 99, 97, 115, 101>>

\* "snake"
StrSnake == <<115, 110, 97, 107, 101>>

\* "snakecase"
StrSnakecase == <<115, 110, 97, 107, 101, 99, 97, 115, 101>>

\* "kebab"
StrKebab == <<107, 101, 98, 97, 98>>

\* "kebabcase"
StrKebabcase == <<107, 101, 98, 97, 98, 99, 97, 115, 101>>

\* "screaming_snake"
StrScreamingSnake == <<115, 99, 114, 101, 97, 109, 105, 110, 103, 95, 115, 110, 97, 107, 101>>

\* "screamingsnake"
StrScreamingsnake == <<115, 99, 114, 101, 97, 109, 105, 110, 103, 115, 110, 97, 107, 101>>

\* "sentence"
StrSentence == <<115, 101, 110, 116, 101, 110, 99, 101>>

\* the values drawn for the parameter `case_type`
CaseTypeSamples ==
    {<<117, 112, 112, 101, 114>>,    \* "upper"
     <<117, 112, 112, 101, 114, 99, 97, 115, 101>>,    \* "uppercase"
     <<108, 111, 119, 101, 114>>,    \* "lower"
     <<108, 111, 119, 101, 114, 99, 97, 115, 101>>,    \* "lowercase"
     <<116, 105, 116, 108, 101>>,    \* "title"
     <<116, 105, 116, 108, 101, 99, 97, 115, 101>>,    \* "titlecase"
     <<99, 97, 109, 101, 108>>,    \* "camel"
     <<99, 97, 109, 101, 108, 99, 97, 115, 101>>,    \* "camelcase"
     <<112, 97, 115, 99, 97, 108>>,    \* "pascal"
     <<112, 97, 115, 99, 97, 108, 99, 97, 115, 101>>,    \* "pascalcase"
     <<115, 110, 97, 107, 101>>,    \* "snake"
     <<115, 110, 97, 107, 101, 99, 97, 115, 101>>,    \* "snakecase"
     <<107, 101, 98, 97, 98>>,    \* "kebab"
     <<107, 101, 98, 97, 98, 99, 97, 115, 101>>,    \* "kebabcase"
     <<115, 99, 114, 101, 97, 109, 105, 110, 103, 95, 115, 110, 97, 107, 101>>,    \* "screaming_snake"
     <<115, 99, 114, 101, 97, 109, 105, 110, 103, 115, 110, 97, 107, 101>>,    \* "screamingsnake"
     <<115, 101, 110, 116, 101, 110, 99, 101>>,    \* "sentence"
     <<85, 80, 80, 69, 82>>,    \* "UPPER"
     <<84, 105, 116, 108, 101>>,    \* "Title"
     <<83, 69, 78, 84, 69, 78, 67, 69>>,    \* "SENTENCE"
     <<83, 101, 110, 116, 101, 110, 99, 101>>,    \* "Sentence"
     <<67, 97, 109, 101, 108, 67, 97, 115, 101>>,    \* "CamelCase"
     <<115, 110, 97, 75, 101>>,    \* "snaKe"
     <<115, 110, 97, 8490, 101>>,    \* "sna\u212ae"
     <<8490, 101, 98, 97, 98>>,    \* "\u212aebab"
     <<83, 67, 82, 69, 65, 77, 73, 78, 71, 95, 83, 78, 65, 75, 69>>,    \* "SCREAMING_SNAKE"
     <<115, 99, 114, 101, 97, 109, 105, 110, 103, 45, 115, 110, 97, 107, 101>>,    \* "screaming-snake"
     <<115, 99, 114, 101, 97, 109, 105, 110, 103, 32, 115, 110, 97, 107, 101>>,    \* "screaming snake"
     <<99, 97, 112, 105, 116, 97, 108>>,    \* "capital"
     <<115, 101, 110, 116, 101, 110, 99, 101, 99, 97, 115, 101>>,    \* "sentencecase"
     <<99, 111, 110, 115, 116, 97, 110, 116>>,    \* "constant"
     <<116, 114, 97, 105, 110>>,    \* "train"
     <<116, 111, 103, 103, 108, 101>>,    \* "toggle"
     <<97, 108, 116, 101, 114, 110, 97, 116, 105, 110, 103>>,    \* "alternating"
     <<>>,    \* ""
     <<116, 105, 116, 108, 101, 32>>,    \* "title "
     <<383, 110, 97, 107, 101>>,    \* "\u017fnake"
     <<84, 304, 84, 76, 69>>,    \* "T\u0130TLE"
     <<117, 112>>}    \* "up"

MaxTextLen == 3

\* the characters of the texts: "a", "B", " ", "_" and "-"
TextChars == {97, 66, 32, 95, 45}

RECURSIVE StringsUpTo(_, _)
StringsUpTo(chars, n) ==
    IF n = 0 THEN {<<>>}
    ELSE LET shorter == StringsUpTo(chars, n - 1)
         IN  shorter \cup {Append(t, c) : t \in {u \in shorter : Len(u) = n - 1}, c \in chars}

\* the values drawn for the parameter `text`
Texts == StringsUpTo(TextChars, MaxTextLen)

IsLowerChar(c) == c \in 97..122

IsUpperChar(c) == c \in 65..90

RECURSIVE to_uppercase(_)
\* str::to_uppercase, of the letters a word of a text can hold
to_uppercase(s) ==
    IF s = <<>> THEN <<>>
    ELSE <<IF IsLowerChar(s[1]) THEN s[1] - 32 ELSE s[1]>> \o to_uppercase(Drop(s, 1))

\* the characters that Boundary::defaults() splits at and removes
WordDelimiters == {32, 95, 45}

RECURSIVE SplitWords(_, _)
\* the words of a text under Boundary::defaults(): split at and without
\* " ", "_" and "-", between a lower-case and an upper-case letter, and before
\* the last capital of a run that a lower-case letter follows; cur is the
\* word being read, empty words are dropped
SplitWords(text, cur) ==
    LET done == IF cur = <<>> THEN <<>> ELSE <<cur>>
    IN  IF text = <<>> THEN done
        ELSE LET c == text[1]
                 rest == Drop(text, 1)
             IN  IF c \in WordDelimiters
                 THEN done \o SplitWords(rest, <<>>)
                 ELSE IF /\ cur # <<>>
                         /\ \/ IsLowerChar(cur[Len(cur)]) /\ IsUpperChar(c)
                            \/ /\ IsUpperChar(cur[Len(cur)]) /\ IsUpperChar(c)
                               /\ rest # <<>> /\ IsLowerChar(rest[1])
                 THEN <<cur>> \o SplitWords(rest, <<c>>)
                 ELSE SplitWords(rest, Append(cur, c))

\* Pattern::Capital on one word
Capital(word) ==
    IF word = <<>> THEN <<>>
    ELSE to_uppercase(<<word[1]>>) \o to_lowercase(Drop(word, 1))

\* the pattern of a Case applied to the i-th word
WordPattern(case, word, i) ==
    CASE case \in {"Upper", "ScreamingSnake"}  -> to_uppercase(word)
      [] case \in {"Lower", "Snake", "Kebab"}  -> to_lowercase(word)
      [] case \in {"Title", "Pascal"}          -> Capital(word)
      [] case = "Camel"  -> IF i = 1 THEN to_lowercase(word) ELSE Capital(word)
      [] case = "Sentence" -> IF i = 1 THEN Capital(word) ELSE to_lowercase(word)

\* the delimiter a Case joins its words with
CaseDelimiter(case) ==
    CASE case \in {"Upper", "Lower", "Title", "Sentence"} -> <<32>>
      [] case \in {"Snake", "ScreamingSnake"}             -> <<95>>
      [] case = "Kebab"                                   -> <<45>>
      [] case \in {"Camel", "Pascal"}                     -> <<>>

RECURSIVE JoinWords(_, _, _, _)
JoinWords(words, case, i, delim) ==
    IF i > Len(words) THEN <<>>
    ELSE (IF i = 1 THEN <<>> ELSE delim)
            \o WordPattern(case, words[i], i) \o JoinWords(words, case, i + 1, delim)

\* Casing::to_case
to_case(text, case) == JoinWords(SplitWords(text, <<>>), case, 1, CaseDelimiter(case))

\* a mutant of the match of convert_case: "sentence" has a Case of its own
case_of_SentenceCase(case_type) ==
    LET t == to_lowercase(case_type)
    IN  CASE t \in {StrUpper, StrUppercase}                   -> "Upper"
          [] t \in {StrLower, StrLowercase}                   -> "Lower"
          [] t \in {StrTitle, StrTitlecase}                   -> "Title"
          [] t \in {StrCamel, StrCamelcase}                   -> "Camel"
          [] t \in {StrPascal, StrPascalcase}                 -> "Pascal"
          [] t \in {StrSnake, StrSnakecase}                   -> "Snake"
          [] t \in {StrKebab, StrKebabcase}                   -> "Kebab"
          [] t \in {StrScreamingSnake, StrScreamingsnake}     -> "ScreamingSnake"
          [] t = StrSentence                                  -> "Sentence"
          [] OTHER                                            -> "none"

\* the match of convert_case on case_type.to_lowercase(): the Case, or
\* "none" for the wildcard arm
case_of(case_type) ==
    LET t == to_lowercase(case_type)
    IN  CASE t \in {StrUpper, StrUppercase}                   -> "Upper"
          [] t \in {StrLower, StrLowercase}                   -> "Lower"
          [] t \in {StrTitle, StrTitlecase}                   -> "Title"
          [] t \in {StrCamel, StrCamelcase}                   -> "Camel"
          [] t \in {StrPascal, StrPascalcase}                 -> "Pascal"
          [] t \in {StrSnake, StrSnakecase}                   -> "Snake"
          [] t \in {StrKebab, StrKebabcase}                   -> "Kebab"
          [] t \in {StrScreamingSnake, StrScreamingsnake}     -> "ScreamingSnake"
          [] t = StrSentence                                  -> "Title"
          [] OTHER                                            -> "none"

\* convert_case
convert_case(text, case_type) ==
    IF case_of(case_type) = "none"
    THEN OpErr("Unsupported case type: {}")
    ELSE OpOk(to_case(text, case_of(case_type)))

NoTextCall == [op |-> "none"]

TextIdle ==
    /\ textCall = NoTextCall
    /\ textResult = NoOpResult

ConvertCase ==
    /\ textCall = NoTextCall
    /\ \E text \in Texts, case_type \in CaseTypeSamples :
        /\ textCall' = [op |-> "convert_case", text |-> text, case_type |-> case_type]
        /\ textResult' = convert_case(text, case_type)

\* the front end has the result
TextReturn ==
    /\ textCall # NoTextCall
    /\ textCall' = NoTextCall
    /\ textResult' = NoOpResult

TextNext ==
    \/ ConvertCase /\ UNCHANGED <<lookupVars, execVars, opVars, libVars, storeVars, schedVars, cmpVars, gifVars, winVars>>
    \/ TextReturn /\ UNCHANGED <<lookupVars, execVars, opVars, libVars, storeVars, schedVars, cmpVars, gifVars, winVars>>

(***************************************************************************)
(* The compress operations: the output path they derive from the input     *)
(* path and the arguments they give their tool (compress_image of          *)
(* commands/image.rs, compress_pdf of commands/pdf.rs, compress_video of    *)
(* commands/video.rs, utils/path_utils.rs).                                *)
(***************************************************************************)

\* "compressed"
StrCompressed == <<99, 111, 109, 112, 114, 101, 115, 115, 101, 100>>

\* "output"
StrOutput == <<111, 117, 116, 112, 117, 116>>

\* "mp4"
StrMp4 == <<109, 112, 52>>

\* "pdf"
StrPdf == <<112, 100, 102>>

\* "-i"
ArgI == <<45, 105>>

\* "-c:v"
ArgCv == <<45, 99, 58, 118>>

\* "libx264"
ArgLibx264 == <<108, 105, 98, 120, 50, 54, 52>>

\* "-crf"
ArgCrf == <<45, 99, 114, 102>>

\* "-preset"
ArgPreset == <<45, 112, 114, 101, 115, 101, 116>>

\* "medium"
StrMedium == <<109, 101, 100, 105, 117, 109>>

\* "-c:a"
ArgCa == <<45, 99, 58, 97>>

\* "aac"
ArgAac == <<97, 97, 99>>

\* "-b:a"
ArgBa == <<45, 98, 58, 97>>

\* "128k"
Arg128k == <<49, 50, 56, 107>>

\* "-y"
ArgY == <<45, 121>>

\* "veryslow"
StrVeryslow == <<118, 101, 114, 121, 115, 108, 111, 119>>

\* "slow"
StrSlow == <<115, 108, 111, 119>>

\* "fast"
StrFast == <<102, 97, 115, 116>>

\* "-qp"
ArgQp == <<45, 113, 112>>

\* "0"
ArgZero == <<48>>

\* "copy"
ArgCopy == <<99, 111, 112, 121>>

\* "-sDEVICE=pdfwrite"
ArgDevice == <<45, 115, 68, 69, 86, 73, 67, 69, 61, 112, 100, 102, 119, 114, 105, 116, 101>>

\* "-dCompatibilityLevel=1.4"
ArgCompatibility == <<45, 100, 67, 111, 109, 112, 97, 116, 105, 98, 105, 108, 105, 116, 121, 76, 101, 118, 101, 108, 61, 49, 46, 52>>

\* "-dPDFSETTINGS="
ArgPdfSettings == <<45, 100, 80, 68, 70, 83, 69, 84, 84, 73, 78, 71, 83, 61>>

\* "-dNOPAUSE"
ArgNoPause == <<45, 100, 78, 79, 80, 65, 85, 83, 69>>

\* "-dQUIET"
ArgQuiet == <<45, 100, 81, 85, 73, 69, 84>>

\* "-dBATCH"
ArgBatch == <<45, 100, 66, 65, 84, 67, 72>>

\* "-sOutputFile="
ArgOutputFile == <<45, 115, 79, 117, 116, 112, 117, 116, 70, 105, 108, 101, 61>>

\* the values drawn for the parameter `input_path`: paths that end in a file
\* name, absolute and relative, and the empty path
InputPaths ==
    {<<99, 108, 105, 112, 46, 109, 112, 52>>,    \* "clip.mp4"
     <<99, 108, 105, 112>>,    \* "clip"
     <<46, 104, 105, 100, 100, 101, 110>>,    \* ".hidden"
     <<97, 46, 116, 97, 114, 46, 103, 122>>,    \* "a.tar.gz"
     <<47, 118, 47, 99, 108, 105, 112, 46, 109, 112, 52>>,    \* "/v/clip.mp4"
     <<118, 47, 99, 108, 105, 112, 46, 109, 111, 118>>,    \* "v/clip.mov"
     <<46, 47, 99, 108, 105, 112, 46, 109, 112, 52>>,    \* "./clip.mp4"
     <<47, 99, 108, 105, 112, 46, 109, 112, 52>>,    \* "/clip.mp4"
     <<47, 118, 46, 100, 47, 99, 108, 105, 112>>,    \* "/v.d/clip"
     <<47, 118, 47, 100, 111, 99, 46, 112, 100, 102>>,    \* "/v/doc.pdf"
     <<100, 111, 99, 46, 112, 100, 102>>,    \* "doc.pdf"
     <<47, 118, 47, 112, 105, 99, 46, 106, 112, 101, 103>>,    \* "/v/pic.jpeg"
     <<112, 105, 99, 46, 112, 110, 103>>,    \* "pic.png"
     <<47, 118, 47, 112, 105, 99, 95>> \o StrCompressed \o <<46, 106, 112, 103>>,
                                                  \* "/v/pic_compressed.jpg"
     <<99, 108, 105, 112, 95>> \o StrCompressed \o <<46, 109, 112, 52>>,
                                                  \* "clip_compressed.mp4"
     <<>>}    \* ""

\* the values drawn for the parameter `output_format` of compress_image
CompressFormats ==
    {<<106, 112, 103>>,    \* "jpg"
     <<106, 112, 101, 103>>,    \* "jpeg"
     <<74, 80, 69, 71>>,    \* "JPEG"
     <<112, 110, 103>>,    \* "png"
     <<119, 101, 98, 112>>,    \* "webp"
     <<103, 105, 102>>}    \* "gif"

\* Option::unwrap_or
unwrap_or(opt, default) == IF opt.some THEN opt.list ELSE default

\* the index of the last c in s, 0 when s holds none
LastIndexOf(s, c) ==
    IF \E i \in 1..Len(s) : s[i] = c
    THEN CHOOSE i \in 1..Len(s) : s[i] = c /\ \A j \in (i + 1)..Len(s) : s[j] # c
    ELSE 0

\* Path::file_name, of a path that does not end in "/", "." or ".."
file_name(path) ==
    LET name == SubSeq(path, LastIndexOf(path, 47) + 1, Len(path))
    IN  IF name = <<>> THEN None ELSE Some(name)

\* Path::file_stem: the file name up to its last ".", the whole name when it
\* has no "." or only begins with one
file_stem(path) ==
    IF file_name(path) = None THEN None
    ELSE LET name == file_name(path).list
             dot == LastIndexOf(name, 46)
         IN  IF dot <= 1 THEN Some(name) ELSE Some(SubSeq(name, 1, dot - 1))

\* Path::extension: the file name after its last ".", None when it has no "."
\* or only begins with one
extension(path) ==
    IF file_name(path) = None THEN None
    ELSE LET name == file_name(path).list
             dot == LastIndexOf(name, 46)
         IN  IF dot <= 1 THEN None ELSE Some(SubSeq(name, dot + 1, Len(name)))

\* Path::parent, of a path without doubled "/": None for the empty path, ""
\* for a bare file name, "/" for a file of the root directory
parent(path) ==
    LET slash == LastIndexOf(path, 47)
    IN  IF path = <<>> THEN None
        ELSE IF slash = 0 THEN Some(<<>>)
        ELSE IF slash = 1 THEN Some(<<47>>)
        ELSE Some(SubSeq(path, 1, slash - 1))

\* a mutant of generate_output_path: the suffix is left out
generate_output_path_NoSuffix(input_path, suffix, ext) ==
    unwrap_or(parent(input_path), <<>>) \o <<47>>
        \o unwrap_or(file_stem(input_path), StrOutput) \o <<46>> \o ext

\* generate_output_path: format!("{}/{}_{}.{}", parent, stem, suffix, extension)
generate_output_path(input_path, suffix, ext) ==
    unwrap_or(parent(input_path), <<>>) \o <<47>>
        \o unwrap_or(file_stem(input_path), StrOutput) \o <<95>> \o suffix \o <<46>> \o ext

\* the output path of compress_pdf: format!("{}/{}_compressed.pdf", parent, stem)
compress_pdf_output_path(input_path) ==
    unwrap_or(parent(input_path), <<>>) \o <<47>>
        \o unwrap_or(file_stem(input_path), StrCompressed) \o <<95>> \o StrCompressed
        \o <<46>> \o StrPdf

\* the output path of compress_video: format!("{}/{}_compressed.{}", parent,
\* stem, extension)
compress_video_output_path(input_path) ==
    unwrap_or(parent(input_path), <<>>) \o <<47>>
        \o unwrap_or(file_stem(input_path), StrCompressed) \o <<95>> \o StrCompressed
        \o <<46>> \o unwrap_or(extension(input_path), StrMp4)

RECURSIVE to_string(_)
\* u8::to_string
to_string(n) ==
    IF n < 10 THEN <<48 + n>> ELSE to_string(n \div 10) \o <<48 + (n % 10)>>

\* CompressionLevel::video_crf
video_crf(lv) ==
    CASE lv = "Lossless"      -> [crf |-> 0, preset |-> StrVeryslow]
      [] lv = "NearLossless"  -> [crf |-> 17, preset |-> StrSlow]
      [] lv = "HighQuality"   -> [crf |-> 23, preset |-> StrMedium]
      [] lv = "MediumQuality" -> [crf |-> 28, preset |-> StrMedium]
      [] lv = "LowQuality"    -> [crf |-> 35, preset |-> StrFast]

\* CompressionLevel::ghostscript_settings
ghostscript_settings(lv) ==
    CASE lv = "Lossless"      -> "/default"
      [] lv = "NearLossless"  -> "/prepress"
      [] lv = "HighQuality"   -> "/printer"
      [] lv = "MediumQuality" -> "/ebook"
      [] lv = "LowQuality"    -> "/screen"

\* the arguments compress_video gives ffmpeg
compress_video_args(input_path, quality_level) ==
    IF quality_level = 0
    THEN <<ArgI, input_path, ArgCv, ArgLibx264, ArgPreset, StrVeryslow, ArgQp, ArgZero,
           ArgCa, ArgCopy, ArgY, compress_video_output_path(input_path)>>
    ELSE <<ArgI, input_path, ArgCv, ArgLibx264,
           ArgCrf, to_string(get_crf_value(quality_level)), ArgPreset, StrMedium,
           ArgCa, ArgAac, ArgBa, Arg128k, ArgY, compress_video_output_path(input_path)>>

\* the text of a value of get_ghostscript_settings
PdfSettingsText(setting) ==
    CASE setting = "/default"  -> <<47, 100, 101, 102, 97, 117, 108, 116>>
      [] setting = "/prepress" -> <<47, 112, 114, 101, 112, 114, 101, 115, 115>>
      [] setting = "/printer"  -> <<47, 112, 114, 105, 110, 116, 101, 114>>
      [] setting = "/ebook"    -> <<47, 101, 98, 111, 111, 107>>
      [] setting = "/screen"   -> <<47, 115, 99, 114, 101, 101, 110>>

\* the arguments compress_pdf gives Ghostscript
compress_pdf_args(input_path, quality_level) ==
    <<ArgDevice, ArgCompatibility,
      ArgPdfSettings \o PdfSettingsText(get_ghostscript_settings(quality_level)),
      ArgNoPause, ArgQuiet, ArgBatch,
      ArgOutputFile \o compress_pdf_output_path(input_path), input_path>>

\* what became of the tool of a call: it could not be started, or it ran,
\* exited with or without success and did or did not leave its output file
ToolRuns ==
    {[spawned |-> FALSE, success |-> FALSE, wrote |-> FALSE]}
        \cup [spawned : {TRUE}, success : BOOLEAN, wrote : BOOLEAN]

\* a Result that carries the output_path of a compress result
CmpOk(output_path) == [kind |-> "ok", msg |-> "output_path", output_path |-> output_path]

\* the Result of compress_video / compress_pdf after their tool
tool_result(run, spawnErr, failErr, output_path) ==
    IF ~run.spawned THEN OpErr(spawnErr)
    ELSE IF ~run.success THEN OpErr(failErr)
    ELSE IF ~run.wrote THEN OpErr("Failed to get output file size: {}")
    ELSE CmpOk(output_path)

NoCmpCall == [op |-> "none"]

CmpIdle ==
    /\ cmpCall = NoCmpCall
    /\ cmpArgv = <<>>
    /\ cmpWritten = None
    /\ cmpResult = NoOpResult

\* the working directories of the process: the root directory and /w
WorkingDirs == {<<>>, <<<<119>>>>}

\* compress_image: the output path is derived once the format is accepted,
\* the file is created at it and the same path is returned
CompressImageRun ==
    /\ cmpCall = NoCmpCall
    /\ \E input_path \in InputPaths, input \in InputImages, quality_level \in QualitySamples,
          output_format \in CompressFormats, cwd \in WorkingDirs,
          createOk \in BOOLEAN, encodeOk \in BOOLEAN, statOk \in BOOLEAN :
        LET out == compress_image(input, quality_level, output_format,
                                  createOk, encodeOk, statOk)
            output_path == generate_output_path(input_path, StrCompressed,
                                                compress_image_extension(output_format))
        IN  /\ cmpCall' = [op |-> "compress_image", input_path |-> input_path,
                           quality_level |-> quality_level,
                           output_format |-> output_format, cwd |-> cwd]
            /\ cmpArgv' = <<>>
            /\ cmpWritten' = IF out.wrote THEN Some(output_path) ELSE None
            /\ cmpResult' = IF out.result.kind = "ok" THEN CmpOk(output_path)
                            ELSE out.result

\* compress_pdf: Ghostscript is started with the arguments and writes at the
\* path of its -sOutputFile
CompressPdfRun ==
    /\ cmpCall = NoCmpCall
    /\ \E input_path \in InputPaths, quality_level \in QualitySamples,
          cwd \in WorkingDirs, run \in ToolRuns :
        LET args == compress_pdf_args(input_path, quality_level)
        IN  /\ cmpCall' = [op |-> "compress_pdf", input_path |-> input_path,
                           quality_level |-> quality_level, cwd |-> cwd]
            /\ cmpArgv' = Argv(CommandArgs(CommandNew(ProgramGs), args))
            /\ cmpWritten' = IF run.wrote
                             THEN Some(SubSeq(args[7], Len(ArgOutputFile) + 1, Len(args[7])))
                             ELSE None
            /\ cmpResult' = tool_result(run,
                                "Failed to run ghostscript. Is it installed? Error: {}",
                                "Ghostscript compression failed: {}",
                                compress_pdf_output_path(input_path))

\* compress_video: ffmpeg is started with the arguments and writes at the
\* path that is its last argument
CompressVideoRun ==
    /\ cmpCall = NoCmpCall
    /\ \E input_path \in InputPaths, quality_level \in QualitySamples,
          cwd \in WorkingDirs, run \in ToolRuns :
        LET args == compress_video_args(input_path, quality_level)
        IN  /\ cmpCall' = [op |-> "compress_video", input_path |-> input_path,
                           quality_level |-> quality_level, cwd |-> cwd]
            /\ cmpArgv' = Argv(CommandArgs(CommandNew(NameFfmpeg), args))
            /\ cmpWritten' = IF run.wrote THEN Some(args[Len(args)]) ELSE None
            /\ cmpResult' = tool_result(run,
                                "Failed to execute ffmpeg. Is it installed? Error: {}",
                                "FFmpeg compression failed: {}",
                                compress_video_output_path(input_path))

\* the front end has the result
CmpReturn ==
    /\ cmpCall # NoCmpCall
    /\ cmpCall' = NoCmpCall
    /\ cmpArgv' = <<>>
    /\ cmpWritten' = None
    /\ cmpResult' = NoOpResult

CmpNext ==
    \/ CompressImageRun /\ UNCHANGED <<lookupVars, execVars, opVars, libVars, storeVars, schedVars, textVars, gifVars, winVars>>
    \/ CompressPdfRun /\ UNCHANGED <<lookupVars, execVars, opVars, libVars, storeVars, schedVars, textVars, gifVars, winVars>>
    \/ CompressVideoRun /\ UNCHANGED <<lookupVars, execVars, opVars, libVars, storeVars, schedVars, textVars, gifVars, winVars>>
    \/ CmpReturn /\ UNCHANGED <<lookupVars, execVars, opVars, libVars, storeVars, schedVars, textVars, gifVars, winVars>>

(***************************************************************************)
(* video_to_gif (commands/video.rs): the two ffmpeg processes of one call,  *)
(* with the arguments they are given and the files they and the call touch. *)
(***************************************************************************)

\* the paths a call is made with.  output_path is the caller's: any path, also
\* the input's and the one the operation keeps its palette at
GifInputPaths == {"/v/clip.mp4", "/v/none.mp4"}

GifOutputPaths == {"/v/clip.gif", "/tmp/palette.png", "/v/clip.mp4"}

GifPaths == GifInputPaths \cup GifOutputPaths

\* Option<u32> of fps and width; the number beside None is never read
NoneU32 == [some |-> FALSE, list |-> 0]

GifFps == {NoneU32, Some(24)}

GifWidths == {NoneU32, Some(320)}

\* let fps_value = fps.unwrap_or(10);
fps_value(fps) == unwrap_or(fps, 10)

\* let width_value = width.unwrap_or(480);
width_value(width) == unwrap_or(width, 480)

\* format!("fps={},scale={}:-1:flags=lanczos,palettegen", fps_value, width_value),
\* kept as its pieces
palette_filter(fps, width) ==
    <<"fps=", fps_value(fps), ",scale=", width_value(width), ":-1:flags=lanczos,palettegen">>

\* format!("fps={},scale={}:-1:flags=lanczos[x];[x][1:v]paletteuse", ...)
gif_filter(fps, width) ==
    <<"fps=", fps_value(fps), ",scale=", width_value(width),
      ":-1:flags=lanczos[x];[x][1:v]paletteuse">>

\* let palette_path = "/tmp/palette.png";
gif_palette_path == "/tmp/palette.png"

\* the arguments of the palette process
palette_args(call) ==
    <<"-i", call.input_path, "-vf", palette_filter(call.fps, call.width), "-y",
      gif_palette_path>>

\* the arguments of the GIF process
gif_args(call) ==
    <<"-i", call.input_path, "-i", gif_palette_path, "-lavfi",
      gif_filter(call.fps, call.width), "-y", call.output_path>>

\* the arguments of the process of a step
GifStepArgs(step, call) == IF step = "palette" THEN palette_args(call) ELSE gif_args(call)

\* the file ffmpeg writes: the last of its arguments, after -y
OutputFileOf(args) == args[Len(args)]

NoGifCall == [input_path |-> "", output_path |-> "", fps |-> NoneU32, width |-> NoneU32]

GifIdle ==
    /\ gifCall = NoGifCall
    /\ gifPc = "idle"
    /\ gifProcs = <<>>
    /\ gifDisk = [f \in GifPaths |-> "untouched"]
    /\ gifResult = NoOpResult

\* the front end invokes video_to_gif; the closure runs up to the first
\* Command::output()
VideoToGif(input_path, output_path, fps, width) ==
    /\ gifPc = "idle"
    /\ gifCall = NoGifCall
    /\ gifCall' = [input_path |-> input_path, output_path |-> output_path,
                   fps |-> fps, width |-> width]
    /\ gifPc' = "palette"
    /\ UNCHANGED <<gifProcs, gifDisk, gifResult>>

\* Command::output() returns Err: no process; the error is mapped and returned
\* with `?`
GifSpawnFail ==
    /\ gifPc \in {"palette", "gif"}
    /\ gifResult' = OpErr(SpawnErrorMessage("video_to_gif", gifPc))
    /\ gifPc' = "done"
    /\ UNCHANGED <<gifCall, gifProcs, gifDisk>>

\* Command::output() spawns ffmpeg with the arguments of the step and blocks
GifSpawnOk ==
    /\ gifPc \in {"palette", "gif"}
    /\ gifProcs' = Append(gifProcs, GifStepArgs(gifPc, gifCall))
    /\ gifPc' = IF gifPc = "palette" THEN "palette_wait" ELSE "gif_wait"
    /\ UNCHANGED <<gifCall, gifDisk, gifResult>>

\* what a process that has exited did to its output file: a success has
\* written it, a failure may have created or overwritten it before it failed
GifDiskAfterExit(st, wrote) ==
    IF success(st) \/ wrote
    THEN [gifDisk EXCEPT ![OutputFileOf(gifProcs[Len(gifProcs)])] = "written"]
    ELSE gifDisk

\* the process exits with status st; the closure runs on to the next
\* Command::output() or to its return.  ffmpeg cannot succeed on an input it
\* cannot read.
GifToolExit(st, wrote) ==
    /\ gifPc \in {"palette_wait", "gif_wait"}
    /\ gifCall.input_path = "/v/none.mp4" => ~success(st)
    /\ CASE ~success(st) ->
              /\ gifResult' = OpErr(ExitErrorMessage("video_to_gif",
                                        IF gifPc = "palette_wait" THEN "palette" ELSE "gif"))
              /\ gifPc' = "done"
              /\ gifDisk' = GifDiskAfterExit(st, wrote)
         [] success(st) /\ gifPc = "palette_wait" ->
              /\ gifPc' = "gif"
              /\ gifDisk' = GifDiskAfterExit(st, wrote)
              /\ UNCHANGED gifResult
         [] success(st) /\ gifPc = "gif_wait" ->
              \* let _ = std::fs::remove_file(palette_path);
              /\ gifDisk' = [GifDiskAfterExit(st, wrote) EXCEPT ![gif_palette_path] = "removed"]
              /\ gifResult' = OpOk(OkPayload("video_to_gif"))
              /\ gifPc' = "done"
    /\ UNCHANGED <<gifCall, gifProcs>>

\* the front end has the result.  What the call did to the files is kept, for
\* the files stay as they are; the next call starts its own record.
GifReturn ==
    /\ gifPc = "done"
    /\ gifPc' = "idle"
    /\ gifCall' = NoGifCall
    /\ gifProcs' = <<>>
    /\ gifDisk' = [f \in GifPaths |-> "untouched"]
    /\ gifResult' = NoOpResult

GifNext ==
    \/ \E input_path \in GifInputPaths, output_path \in GifOutputPaths,
          fps \in GifFps, width \in GifWidths :
          VideoToGif(input_path, output_path, fps, width) /\ UNCHANGED <<lookupVars, execVars, opVars, libVars, storeVars, schedVars, textVars, cmpVars, winVars>>
    \/ GifSpawnFail /\ UNCHANGED <<lookupVars, execVars, opVars, libVars, storeVars, schedVars, textVars, cmpVars, winVars>>
    \/ GifSpawnOk /\ UNCHANGED <<lookupVars, execVars, opVars, libVars, storeVars, schedVars, textVars, cmpVars, winVars>>
    \/ \E st \in ExitStatuses, wrote \in BOOLEAN :
          GifToolExit(st, wrote) /\ UNCHANGED <<lookupVars, execVars, opVars, libVars, storeVars, schedVars, textVars, cmpVars, winVars>>
    \/ GifReturn /\ UNCHANGED <<lookupVars, execVars, opVars, libVars, storeVars, schedVars, textVars, cmpVars, winVars>>

(***************************************************************************)
(* The metadata window (commands/window.rs).  open_metadata_window is a    *)
(* `pub fn`: the event loop of the main thread runs the whole handler, so  *)
(* no window is opened or closed while it runs.                            *)
(***************************************************************************)

WindowLabels == {"main", "metadata"}

\* the values drawn for `metadata` (a serde_json::Value) and `window_title`
MetadataSamples == {"{image}", "{pdf}"}

TitleSamples == {"Image Metadata", "PDF Metadata"}

\* the calls of the handler that return a Result, any of which may be the one
\* that fails; "none" when all succeed
WindowFailures ==
    {"none", "show", "set_focus", "emit", "outer_position", "outer_size", "build",
     "apply_vibrancy"}

\* AppHandle::get_window
get_window(open, label) == open[label] > 0

\* the event a call emits to the window labelled "metadata"
MetadataUpdate(metadata) ==
    [event |-> "metadata-update", payload |-> metadata, window |-> "metadata"]

\* what a run of the handler leaves: its Result, the open windows, the title
\* of the metadata window, the operations carried out and the events emitted
WindowRun(res, open, title, trace, emitted) ==
    [result |-> res, open |-> open, title |-> title, trace |-> trace, emitted |-> emitted]

\* Err(e.to_string()) of a tauri error
TauriError == OpErr("{}")

\* WindowBuilder::build adds a window with the label
Built(open) == [open EXCEPT !["metadata"] = @ + 1]

\* a mutant of open_metadata_window: without a main window the metadata window
\* is built all the same
open_metadata_window_NoMainCheck(open, title, metadata, window_title, fail) ==
    IF get_window(open, "metadata")
    THEN IF fail = "emit" THEN WindowRun(TauriError, open, title, <<"show", "set_focus">>, <<>>)
         ELSE WindowRun(OpOk("()"), open, title, <<"show", "set_focus", "emit">>,
                        <<MetadataUpdate(metadata)>>)
    ELSE IF fail = "emit"
         THEN WindowRun(TauriError, Built(open), window_title, <<"build", "sleep">>, <<>>)
         ELSE WindowRun(OpOk("()"), Built(open), window_title, <<"build", "sleep", "emit">>,
                        <<MetadataUpdate(metadata)>>)

\* open_metadata_window
open_metadata_window(open, title, metadata, window_title, fail) ==
    IF get_window(open, "metadata")
    THEN CASE fail = "show" -> WindowRun(TauriError, open, title, <<>>, <<>>)
           [] fail = "set_focus" -> WindowRun(TauriError, open, title, <<"show">>, <<>>)
           [] fail = "emit" ->
                 WindowRun(TauriError, open, title, <<"show", "set_focus">>, <<>>)
           [] OTHER ->
                 WindowRun(OpOk("()"), open, title, <<"show", "set_focus", "emit">>,
                           <<MetadataUpdate(metadata)>>)
    ELSE IF ~get_window(open, "main")
    THEN WindowRun(OpErr("Main window not found"), open, title, <<>>, <<>>)
    ELSE CASE fail \in {"outer_position", "outer_size", "build"} ->
                 WindowRun(TauriError, open, title, <<>>, <<>>)
           [] fail = "apply_vibrancy" ->
                 \* #[cfg(target_os = "macos")]
                 WindowRun(TauriError, Built(open), window_title, <<"build">>, <<>>)
           [] fail = "emit" ->
                 WindowRun(TauriError, Built(open), window_title, <<"build", "sleep">>, <<>>)
           [] OTHER ->
                 WindowRun(OpOk("()"), Built(open), window_title,
                           <<"build", "sleep", "emit">>, <<MetadataUpdate(metadata)>>)

NoWinCall == [metadata |-> "", window_title |-> ""]

WinIdle ==
    /\ winOpen = [l \in WindowLabels |-> IF l = "main" THEN 1 ELSE 0]
    /\ winTitle = ""
    /\ winPc = "idle"
    /\ winCall = NoWinCall
    /\ winResult = NoOpResult
    /\ winTrace = <<>>
    /\ winEmitted = <<>>

\* the front end of an open window invokes the command: the message waits
\* for the event loop
WinInvoke(metadata, window_title) ==
    /\ winPc = "idle"
    /\ \E l \in WindowLabels : winOpen[l] > 0
    /\ winPc' = "invoked"
    /\ winCall' = [metadata |-> metadata, window_title |-> window_title]
    /\ UNCHANGED <<winOpen, winTitle, winResult, winTrace, winEmitted>>

\* the event loop runs the handler from its first line to its return
WinHandle(fail) ==
    /\ winPc = "invoked"
    /\ LET run == open_metadata_window(winOpen, winTitle, winCall.metadata,
                                       winCall.window_title, fail)
       IN  /\ winResult' = run.result
           /\ winOpen' = run.open
           /\ winTitle' = run.title
           /\ winTrace' = run.trace
           /\ winEmitted' = run.emitted
    /\ winPc' = "done"
    /\ UNCHANGED winCall

\* the result reaches the front end, if its window is still there
WinReturn ==
    /\ winPc = "done"
    /\ winPc' = "idle"
    /\ winCall' = NoWinCall
    /\ winResult' = NoOpResult
    /\ winTrace' = <<>>
    /\ winEmitted' = <<>>
    /\ UNCHANGED <<winOpen, winTitle>>

\* the user closes a window; the event loop handles it between two commands
WinClose(label) ==
    /\ winOpen[label] > 0
    /\ winOpen' = [winOpen EXCEPT ![label] = @ - 1]
    /\ winTitle' = IF label = "metadata" /\ winOpen[label] = 1 THEN "" ELSE winTitle
    /\ UNCHANGED <<winPc, winCall, winResult, winTrace, winEmitted>>

WinNext ==
    \/ \E metadata \in MetadataSamples, window_title \in TitleSamples :
          WinInvoke(metadata, window_title) /\ UNCHANGED <<lookupVars, execVars, opVars, libVars, storeVars, schedVars, textVars, cmpVars, gifVars>>
    \/ \E fail \in WindowFailures : WinHandle(fail) /\ UNCHANGED <<lookupVars, execVars, opVars, libVars, storeVars, schedVars, textVars, cmpVars, gifVars>>
    \/ WinReturn /\ UNCHANGED <<lookupVars, execVars, opVars, libVars, storeVars, schedVars, textVars, cmpVars, gifVars>>
    \/ \E label \in WindowLabels : WinClose(label) /\ UNCHANGED <<lookupVars, execVars, opVars, libVars, storeVars, schedVars, textVars, cmpVars, gifVars>>

(***************************************************************************)
(* The specifications                                                      *)
(***************************************************************************)

InitLookup == LookupInit /\ ExecIdle /\ OpsIdle /\ LibIdle /\ StoreInit /\ SchedIdle /\ TextIdle /\ CmpIdle /\ GifIdle /\ WinIdle

SpecLookup == InitLookup /\ [][LookupNext]_vars

InitExec == ExecIdle /\ LookupIdle /\ OpsIdle /\ LibIdle /\ StoreInit /\ SchedIdle /\ TextIdle /\ CmpIdle /\ GifIdle /\ WinIdle

SpecExec == InitExec /\ [][ExecNext]_vars

InitOps == OpsIdle /\ LookupIdle /\ ExecIdle /\ LibIdle /\ StoreInit /\ SchedIdle /\ TextIdle /\ CmpIdle /\ GifIdle /\ WinIdle

SpecOps == InitOps /\ [][OpsNext]_vars

InitLib == LibInit /\ LookupIdle /\ ExecIdle /\ OpsIdle /\ StoreInit /\ SchedIdle /\ TextIdle /\ CmpIdle /\ GifIdle /\ WinIdle

SpecLib == InitLib /\ [][LibNext]_vars

InitStore == StoreInit /\ LookupIdle /\ ExecIdle /\ OpsIdle /\ LibIdle /\ SchedIdle /\ TextIdle /\ CmpIdle /\ GifIdle /\ WinIdle

SpecStore == InitStore /\ [][StoreNext]_vars

\* the step the worker of an operation is at: the outcome of its spawn, or
\* the exit of the tool it waits for
WorkerStep(w) ==
    /\ SpawnFail(w) \/ SpawnOk(w) \/ \E st \in ExitStatuses : ToolExit(w, st)
    /\ UNCHANGED <<lookupVars, execVars, libVars, storeVars, schedVars, textVars, cmpVars, gifVars, winVars>>

\* the worker thread of an operation is scheduled whenever it can run, and
\* every process that was spawned exits: the step a worker is at is
\* eventually taken
OpsFairness == \A w \in Workers : WF_vars(WorkerStep(w))

SpecOpsFair == InitOps /\ [][OpsNext]_vars /\ OpsFairness

InitText == TextIdle /\ LookupIdle /\ ExecIdle /\ OpsIdle /\ LibIdle /\ StoreInit /\ SchedIdle /\ CmpIdle /\ GifIdle /\ WinIdle

SpecText == InitText /\ [][TextNext]_vars

InitCmp ==
    CmpIdle /\ LookupIdle /\ ExecIdle /\ OpsIdle /\ LibIdle /\ StoreInit /\ SchedIdle /\ TextIdle /\ GifIdle /\ WinIdle

SpecCmp == InitCmp /\ [][CmpNext]_vars

InitSched == SchedIdle /\ LookupIdle /\ ExecIdle /\ OpsIdle /\ LibIdle /\ StoreInit /\ TextIdle /\ CmpIdle /\ GifIdle /\ WinIdle

SpecSched == InitSched /\ [][SchedNext]_vars

InitGif == GifIdle /\ LookupIdle /\ ExecIdle /\ OpsIdle /\ LibIdle /\ StoreInit /\ SchedIdle /\ TextIdle /\ CmpIdle /\ WinIdle

SpecGif == InitGif /\ [][GifNext]_vars

InitWin == WinIdle /\ LookupIdle /\ ExecIdle /\ OpsIdle /\ LibIdle /\ StoreInit /\ SchedIdle /\ TextIdle /\ CmpIdle /\ GifIdle

SpecWin == InitWin /\ [][WinNext]_vars

(***************************************************************************)
(* The claims                                                              *)
(***************************************************************************)

\* C1: for every u8 ordinal each of the three level mappings returns a defined
\* value, and for every ordinal outside {0,1,2,3,4} the value is the one of
\* ordinal 2: from_u8 gives HighQuality, get_crf_value gives 23 and
\* get_ghostscript_settings gives "/printer".
C1_FallbackIsHighQuality ==
    /\ lookupOut.fn = "from_u8" =>
          /\ lookupOut.value \in CompressionLevel
          /\ level \notin 0..4 =>
                lookupOut.value = "HighQuality" /\ lookupOut.value = from_u8(2)
    /\ lookupOut.fn = "get_crf_value" =>
          /\ lookupOut.value \in U8
          /\ level \notin 0..4 =>
                lookupOut.value = 23 /\ lookupOut.value = get_crf_value(2)
    /\ lookupOut.fn = "get_ghostscript_settings" =>
          /\ lookupOut.value \in {"/default", "/prepress", "/printer", "/ebook", "/screen"}
          /\ level \notin 0..4 =>
                lookupOut.value = "/printer"
                /\ lookupOut.value = get_ghostscript_settings(2)

C1_Witness ==
    /\ level = U8Max
    /\ lookupOut = [fn |-> "from_u8", value |-> "HighQuality"]

\* C2: validate_output returns Ok exactly when the captured exit status is a
\* success; for a captured result whose status is no success it returns Err with
\* "Command failed: " followed by the text of the captured stderr (its lossy
\* UTF-8 decoding), so the message contains that text, and contains the captured
\* bytes themselves whenever they are well-formed UTF-8.  The verdict is fixed
\* by the status and the stderr of the captured result alone.
C2_ValidateOutputVerdict ==
    valOut.kind # "none" =>
        LET o == execProc.output
            text == from_utf8_lossy(o.stderr)
        IN  /\ execProc.spawned
            /\ (valOut.kind = "ok") <=> success(o.status)
            /\ ~success(o.status) =>
                  /\ valOut.kind = "err"
                  /\ valOut.msg = CommandFailedPrefix \o text
                  /\ Contains(valOut.msg, text)
                  /\ (\A i \in 1..Len(text) : text[i] # ReplacementChar)
                        => Contains(AsBytes(valOut.msg), o.stderr)

C2_Witness ==
    /\ valOut.kind = "err"
    /\ execProc.output.stderr = <<195, 169>>
    /\ execProc.output.status = [signalled |-> FALSE, code |-> 1]
    /\ execProc.output.stdout = <<65>>

\* C8: execute / execute_strings return Err exactly when the process could not
\* be spawned, with a message that names the tool and speaks of installing it;
\* when the tool ran, also with a non-zero exit, they return Ok with the
\* captured output, and validate_output alone makes the "Command failed: "
\* error with the stderr text.  No executor error equals any validator error.
C8_DistinctFailureConditions ==
    /\ execReq # NoReq =>
          /\ (execOut.kind = "err") <=> ~execProc.spawned
          /\ execProc.spawned => execOut = Ok(execProc.output)
          /\ execOut.kind = "err" =>
                /\ StartsWith(execOut.msg, FailedToExecutePrefix \o ToolName(execReq.tool))
                /\ Contains(execOut.msg, execProc.error)
                /\ Contains(execOut.msg, WordInstalled)
                /\ \A o \in Outputs : validate_output(o).msg # execOut.msg
    /\ valOut.kind = "err" =>
          /\ execOut.kind = "ok" /\ ~success(execOut.output.status)
          /\ StartsWith(valOut.msg, CommandFailedPrefix)
          /\ Contains(valOut.msg, from_utf8_lossy(execOut.output.stderr))
          /\ \A tool \in Tools, method \in Methods, e \in IoErrors :
                ExecutorCall(tool, method, [spawned |-> FALSE, error |-> e,
                                            output |-> NoOutput]).msg # valOut.msg

C8_Witness ==
    /\ execReq = [tool |-> "gs", method |-> "execute_strings"]
    /\ execOut.kind = "ok"
    /\ execOut.output.status.code = 1
    /\ valOut.kind = "err"

\* C3: in video_to_gif the palette file written by the palette step is removed
\* by the time the operation returns, on every path (GIF step succeeded, exited
\* non-zero, or could not be spawned): the step that ends a video_to_gif whose
\* palette step wrote the file leaves no file at the palette path.
C3_PaletteRemovedOnEveryPath ==
    [][\A w \in Workers :
          (opPc[w] # "done" /\ opPc'[w] = "done"
           /\ opName[w] = "video_to_gif" /\ paletteMade[w])
          => palette' = 0]_vars

\* C4: two video_to_gif operations running at once never touch the same palette
\* file: the GIF process of each opens the palette its own palette step wrote.
C4_GifReadsOwnPalette ==
    \A w \in Workers : paletteRead[w].read => paletteRead[w].owner = w

\* C7: for every operation that runs an external tool, a failed spawn and a
\* non-zero exit are each returned to the caller as an Err with a descriptive
\* string; no operation returns a success payload after its tool was
\* unavailable or exited non-zero.
C7_ToolFailureIsErr ==
    \A w \in Workers :
        (opPc[w] = "done" /\ opFailure[w] # "none")
        => (opResult[w].kind = "err" /\ opResult[w].msg # "")

\* C5 as claimed: rotate_image and rotate_image_preview called with any degrees
\* other than 90, 180 or 270 return the error "Only 90, 180, and 270 degree
\* rotations are supported", spawn no process and write no output file.
C5_UnsupportedDegreesExplicitError ==
    (libCall.op \in {"rotate_image", "rotate_image_preview"}
     /\ libCall.degrees \notin {90, 180, 270})
    => /\ libResult = OpErr("Only 90, 180, and 270 degree rotations are supported")
       /\ ~libWrote
       /\ libOutput \in PriorFiles
       /\ \A w \in Workers : opSpawns[w] = <<>> /\ opPc[w] = "idle"

\* C5 as amended: rotate_image and rotate_image_preview called with any degrees
\* other than 90, 180 or 270 return an error, spawn no process and write no
\* output file; the error is "Only 90, 180, and 270 degree rotations are
\* supported" when the input image can be opened, and the "Failed to open
\* image: ..." error, which is made first, when it cannot.
C5_UnsupportedDegreesRejected ==
    (libCall.op \in {"rotate_image", "rotate_image_preview"}
     /\ libCall.degrees \notin {90, 180, 270})
    => /\ libResult = IF libCall.input.kind = "image"
                      THEN OpErr("Only 90, 180, and 270 degree rotations are supported")
                      ELSE OpErr("Failed to open image: {}")
       /\ ~libWrote
       /\ libOutput \in PriorFiles
       /\ \A w \in Workers : opSpawns[w] = <<>> /\ opPc[w] = "idle"

C5_Witness ==
    /\ libCall.op = "rotate_image"
    /\ libCall.degrees = 45
    /\ libCall.input.kind = "image"
    /\ libResult.kind = "err"
    /\ libOutput = OldFile

\* C6: rotate_pdf called with any degrees other than 90, 180 or 270 (0, 45, -90,
\* 360, 450, ...) is rejected with an error and writes no output file.
C6_RotatePdfRejectsUnsupportedDegrees ==
    (libCall.op = "rotate_pdf" /\ libCall.degrees \notin {90, 180, 270})
    => (libResult.kind = "err" /\ ~libWrote /\ libOutput \in PriorFiles)

\* C9: under any interleaving of the writers and readers of the metadata slot,
\* every read returns the initial empty value or the complete value of one
\* earlier write: never halves of two writes, never a half-written value.
C9_ReadsAreWholeWrites ==
    \A c \in Clients :
        cPc[c] = "got" =>
            /\ cGot[c][1] = cGot[c][2]
            /\ cGot[c] = EmptySlot \/ cGot[c][1] \in 1..(nextId - 1)
            /\ \A d \in Clients : cVal[d] # 0 => cGot[c][1] # cVal[d]

C9_Witness ==
    \E c \in Clients, d \in Clients :
        /\ cPc[c] = "got" /\ cGot[c] = <<1, 1>>
        /\ cPc[d] = "set_first" /\ cVal[d] = 2

\* C10: the slot is last-write-wins with no versions: a read returns the value
\* of the most recent write completed before it (the empty value when there is
\* none), and a value overwritten before any read returned it is never
\* returned by a read.
C10_LastWriteWins ==
    /\ \A c \in Clients :
          cPc[c] = "got" => /\ cGot[c] = <<cSaw[c], cSaw[c]>>
                            /\ cGot[c][1] \notin lost
    /\ delivered \cap lost = {}
    /\ storeLock = 0 => slot = <<lastWrite, lastWrite>>

C10_Witness ==
    /\ lastWrite = 2
    /\ lost = {1}
    /\ \E c \in Clients : cPc[c] = "got" /\ cGot[c] = <<2, 2>>

\* C11: no operation is retried: within one invocation each tool step is spawned
\* at most once, and once a tool of the invocation could not be spawned or has
\* exited non-zero the operation has returned its error, with no tool spawned
\* or awaited after the failure.
C11_NoRetryErrorReturned ==
    \A w \in Workers :
        /\ \A i \in 1..Len(opSpawns[w]), j \in 1..Len(opSpawns[w]) :
              opSpawns[w][i] = opSpawns[w][j] => i = j
        /\ opFailure[w] # "none" =>
              /\ opPc[w] = "done"
              /\ opResult[w].kind = "err"

\* C12: every registered command does its blocking work (file I/O, waits for
\* an external process, sleeps) on a worker thread, never on the caller's event
\* loop: the event loop is never blocked inside a command, and while any
\* command is blocked the event loop can still take and start another one.
C12_BlockingOffEventLoop ==
    /\ loopPc # "blocked"
    /\ loopOp \notin AsyncCommands
    /\ \A t \in Workers : poolPc[t] # "idle" => poolOp[t] \in AsyncCommands

\* C13: an operation that has spawned a tool returns a result if and only if
\* the tool exits.  If every spawned tool exits, the operation returns Ok or Err:
\* at a tool step its next step (the outcome of the spawn, the exit of the
\* tool) can always be taken, every such step brings the return nearer, and no
\* step of another operation takes it further away, so that it returns after
\* at most two spawns and two exits.  If a spawned tool does not exit, the
\* operation does not return: once the tool is spawned the operation waits,
\* and only the exit of that tool ends the wait (no timeout, no cancellation).
C13_ReturnsIffToolExits ==
    /\ [](\A w \in Workers :
             /\ opPc[w] = "done" <=> opResult[w].kind \in {"ok", "err"}
             /\ opPc[w] \in {"spawning", "waiting"} => ENABLED WorkerStep(w))
    /\ [][\A w \in Workers :
             /\ (Len(opSpawns'[w]) > Len(opSpawns[w]) /\ opFailure'[w] # "spawn")
                   => opPc'[w] = "waiting"
             /\ (opPc[w] = "waiting" /\ opPc'[w] # "waiting")
                   => \E st \in ExitStatuses : ToolExit(w, st)
             /\ opPc[w] \in {"spawning", "waiting"} =>
                   /\ StepsLeft(opPc'[w], opStep'[w]) <= StepsLeft(opPc[w], opStep[w])
                   /\ WorkerStep(w) =>
                         StepsLeft(opPc'[w], opStep'[w]) < StepsLeft(opPc[w], opStep[w])]_vars

\* the liveness reading of C13 under OpsFairness: an operation is never at a
\* tool step for ever
C13_EventuallyReturns ==
    \A w \in Workers : []<>(opPc[w] \notin {"spawning", "waiting"})

C13_Witness ==
    \E w \in Workers :
        /\ opPc[w] = "done"
        /\ opName[w] = "video_to_gif"
        /\ opSpawns[w] = <<"palette", "gif">>
        /\ opResult[w].kind = "ok"

\* C14: a failure is scoped to the operation it happens in: a tool of an
\* operation that could not be spawned or exited non-zero is returned to that
\* operation's caller as an Err with a message, and the failed operation leaves
\* nothing behind for the operations invoked after it: whenever no operation
\* is in flight the palette path holds no file, as before the first call.
C14_FailureScoped ==
    /\ \A w \in Workers :
          (opPc[w] = "done" /\ opFailure[w] # "none")
             => (opResult[w].kind = "err" /\ opResult[w].msg # "")
    /\ (\A w \in Workers : opPc[w] \in {"idle", "done"}) => palette = 0

(***************************************************************************)
(* C15: the string parameters of the image operations                      *)
(***************************************************************************)

\* s is the name t (written in lower case) up to the case of its letters:
\* each character of s is the letter of t or a capital of it (the capitals
\* of "k" are "K" and U+212A KELVIN SIGN)
EqIgnoreCase(s, t) ==
    /\ Len(s) = Len(t)
    /\ \A i \in 1..Len(t) :
          \/ s[i] = t[i]
          \/ s[i] \in 65..90 /\ s[i] + 32 = t[i]
          \/ s[i] = 8490 /\ t[i] = 107

\* the parameter values an operation accepts, as the specification lists them
AcceptedParam(op, param) ==
    CASE op = "convert_image" ->
            \E t \in {StrPng, StrJpg, StrJpeg, StrWebp, StrGif, StrBmp, StrIco, StrTiff} :
                EqIgnoreCase(param, t)
      [] op \in {"compress_image", "estimate_compressed_size"} ->
            \E t \in {StrJpg, StrJpeg, StrPng, StrWebp} : EqIgnoreCase(param, t)
      [] op \in {"flip_image", "flip_image_preview"} ->
            param \in {StrHorizontal, StrVertical}

\* the error an operation gives for a parameter value it does not accept
ParamError(op) ==
    IF op \in {"flip_image", "flip_image_preview"}
    THEN OpErr("Direction must be 'horizontal' or 'vertical'")
    ELSE OpErr("Unsupported format: {}")

ParamOps ==
    {"convert_image", "compress_image", "estimate_compressed_size",
     "flip_image", "flip_image_preview"}

\* C15: convert_image accepts exactly png, jpg, jpeg, webp, gif, bmp, ico and
\* tiff, compress_image and estimate_compressed_size exactly jpg, jpeg, png
\* and webp, all in any case of the letters, and flip_image and
\* flip_image_preview exactly "horizontal" and "vertical" as written; any
\* other value is answered with an error, and the rejected call neither
\* creates nor modifies the output file
C15_ImageParamsValidated ==
    libCall.op \in ParamOps =>
        /\ ~AcceptedParam(libCall.op, libCall.param) =>
              /\ libResult.kind = "err"
              /\ ~libWrote
              /\ libOutput \in PriorFiles
        /\ AcceptedParam(libCall.op, libCall.param) => libResult # ParamError(libCall.op)
        /\ (libCall.input.kind = "image" /\ ~AcceptedParam(libCall.op, libCall.param))
              => libResult = ParamError(libCall.op)
        /\ libResult.kind = "ok" => AcceptedParam(libCall.op, libCall.param)

\* compress_image was given "gif", which convert_image accepts and it does
\* not: the call is rejected and the file that was at the output path is
\* as it was
C15_Witness ==
    /\ libCall.op = "compress_image"
    /\ libCall.input.kind = "image"
    /\ libCall.param = StrGif
    /\ libResult = OpErr("Unsupported format: {}")
    /\ ~libWrote
    /\ libOutput = OldFile

\* convert_image was given "JPEG" and wrote a JPEG file
C15_UpperCaseAccepted ==
    /\ libCall.op = "convert_image"
    /\ libCall.param = <<74, 80, 69, 71>>
    /\ libResult.kind = "ok"
    /\ libOutput = EncodedImage("Jpeg", 0)

(***************************************************************************)
(* C16: convert_case                                                       *)
(***************************************************************************)

\* the names of the case types, as the specification lists them
CaseTypeNames ==
    {StrUpper, StrUppercase, StrLower, StrLowercase, StrTitle, StrTitlecase,
     StrCamel, StrCamelcase, StrPascal, StrPascalcase, StrSnake, StrSnakecase,
     StrKebab, StrKebabcase, StrScreamingSnake, StrScreamingsnake, StrSentence}

AcceptedCaseType(case_type) == \E t \in CaseTypeNames : EqIgnoreCase(case_type, t)

\* C16: convert_case accepts case_type, in any case of its letters, only
\* among the listed names and answers any other value with "Unsupported case
\* type"; "sentence" gives, for every text, what "title" gives
C16_CaseTypesAndSentence ==
    textCall.op = "convert_case" =>
        /\ AcceptedCaseType(textCall.case_type) <=> textResult.kind = "ok"
        /\ ~AcceptedCaseType(textCall.case_type)
              <=> textResult = OpErr("Unsupported case type: {}")
        /\ EqIgnoreCase(textCall.case_type, StrSentence) =>
              /\ textResult = OpOk(to_case(textCall.text, "Title"))
              /\ textResult = convert_case(textCall.text, StrTitle)

\* "sentence" was asked for a text of two words, whose sentence case is not
\* its title case: the result is the title case, both words capitalised
C16_Witness ==
    /\ textCall.op = "convert_case"
    /\ textCall.case_type = StrSentence
    /\ textCall.text = <<97, 32, 97>>
    /\ textResult = OpOk(<<65, 32, 65>>)
    /\ to_case(textCall.text, "Sentence") = <<65, 32, 97>>

(***************************************************************************)
(* C17: check_available                                                    *)
(***************************************************************************)

\* the program an executor starts
ToolProgram(tool) ==
    CASE tool = "ffmpeg"  -> NameFfmpeg
      [] tool = "ffprobe" -> NameFfprobe
      [] tool = "gs"      -> ProgramGs

\* the version flag an executor probes its tool with
VersionFlag(tool) == IF tool = "gs" THEN FlagDashDashVersion ELSE FlagVersion

\* a step of check_available, from the call to the return of the bool
ProbeStep ==
    \/ \E tool \in Tools : CheckAvailable(tool)
    \/ CheckAvailableReturn

\* C17: check_available starts the tool with its version flag and returns
\* true exactly when the process could be started, whatever its exit status.
\* It is advisory: a call of it leaves the state of the executor calls as it
\* was, and what execute / execute_strings can do and return is the same
\* whatever check_available last returned
C17_CheckAvailableAdvisory ==
    /\ [](/\ probeReq # NoProbe =>
                /\ probeReq.argv = <<ToolProgram(probeReq.tool), VersionFlag(probeReq.tool)>>
                /\ probeOut = "true" <=> probeProc.spawned
                /\ probeOut = "false" <=> ~probeProc.spawned
          /\ execReq # NoReq =>
                execOut = ExecutorCall(execReq.tool, execReq.method, execProc)
          /\ (execReq = NoReq /\ execCmd = NoCmd /\ probeReq = NoProbe) =>
                \A tool \in Tools, method \in Methods : ENABLED Execute(tool, method)
          /\ execCmd # NoCmd => ENABLED ExecuteOutput)
    /\ [][ProbeStep => UNCHANGED <<execReq, execProc, execOut, valOut, execCmd>>]_vars

\* the probe of Ghostscript ran and exited with status 1: the answer is true
C17_Witness ==
    /\ probeReq.tool = "gs"
    /\ probeProc.spawned
    /\ probeProc.output.status = [signalled |-> FALSE, code |-> 1]
    /\ probeOut = "true"

\* the last probe answered true and the executor call after it could not
\* start its tool
C17_TrueThenSpawnFails ==
    /\ probeOut = "true"
    /\ probeReq = NoProbe
    /\ execReq # NoReq
    /\ execOut.kind = "err"

(***************************************************************************)
(* C18: the arguments of the tools                                         *)
(***************************************************************************)

\* C18: the process of an executor call is given the program and then the
\* argument list of the call as it is, one process argument per element and
\* in the order of the list; execute and execute_strings of one executor
\* build the same program and arguments from the same list
C18_ArgvIsTheList ==
    execCmd # NoCmd =>
        /\ Len(execCmd.argv) = Len(execCmd.args) + 1
        /\ execCmd.argv[1] = ToolProgram(execCmd.tool)
        /\ \A i \in 1..Len(execCmd.args) : execCmd.argv[i + 1] = execCmd.args[i]
        /\ Argv(ExecutorCommand(execCmd.tool, "execute", execCmd.args)) = execCmd.argv
        /\ Argv(ExecutorCommand(execCmd.tool, "execute_strings", execCmd.args)) = execCmd.argv

\* execute_strings of Ghostscript was given an argument with a space in it
\* and an empty one: the process gets these two arguments after "gs"
C18_Witness ==
    /\ execCmd.tool = "gs"
    /\ execCmd.method = "execute_strings"
    /\ execCmd.args = << <<97, 32, 98>>, <<>> >>
    /\ execCmd.argv = << <<103, 115>>, <<97, 32, 98>>, <<>> >>

(***************************************************************************)
(* C19: the derived output path                                            *)
(***************************************************************************)

RECURSIVE PathComponents(_, _)
\* the components of a path between its "/", without the empty ones and "."
PathComponents(path, cur) ==
    LET done == IF cur \in {<<>>, <<46>>} THEN <<>> ELSE <<cur>>
    IN  IF path = <<>> THEN done
        ELSE IF path[1] = 47 THEN done \o PathComponents(Drop(path, 1), <<>>)
        ELSE PathComponents(Drop(path, 1), Append(cur, path[1]))

\* the file a path names in a process with the working directory cwd: its
\* directories from the root directory on, then its name
Location(path, cwd) ==
    (IF path # <<>> /\ path[1] = 47 THEN <<>> ELSE cwd) \o PathComponents(path, <<>>)

\* the extension the specification gives the output of a call
DerivedExtension(call) ==
    CASE call.op = "compress_image" ->
            IF EqIgnoreCase(call.output_format, StrJpg) \/ EqIgnoreCase(call.output_format, StrJpeg)
            THEN StrJpg
            ELSE IF EqIgnoreCase(call.output_format, StrPng) THEN StrPng ELSE StrWebp
      [] call.op = "compress_pdf" -> StrPdf
      [] call.op = "compress_video" -> unwrap_or(extension(call.input_path), StrMp4)

\* the file the specification has a call write: in the directory of the
\* input, named <stem>_compressed.<extension>
DerivedLocation(call) ==
    LET input == Location(call.input_path, call.cwd)
    IN  SubSeq(input, 1, Len(input) - 1)
            \o <<file_stem(call.input_path).list \o <<95>> \o StrCompressed \o <<46>>
                    \o DerivedExtension(call)>>

\* C19: compress_image, compress_pdf and compress_video write the file
\* <stem>_compressed.<extension> in the directory of the input (the extension
\* of the chosen format with jpg for jpeg, pdf, and the extension of the input
\* or mp4), and the output_path they return is the path that was written
C19_DerivedOutputPath ==
    (cmpCall.op # "none" /\ file_name(cmpCall.input_path) # None) =>
        /\ cmpWritten.some => Location(cmpWritten.list, cmpCall.cwd) = DerivedLocation(cmpCall)
        /\ cmpResult.kind = "ok" =>
              /\ cmpWritten.some
              /\ cmpResult.output_path = cmpWritten.list

\* what holds of every call: the name of the written file and the returned
\* path are as C19 has them, and so is the directory when the input path
\* names one (it is absolute or has a "/")
C19_HoldsWhenInputNamesADirectory ==
    (cmpCall.op # "none" /\ file_name(cmpCall.input_path) # None) =>
        /\ cmpWritten.some =>
              LET written == Location(cmpWritten.list, cmpCall.cwd)
                  derived == DerivedLocation(cmpCall)
              IN  /\ written[Len(written)] = derived[Len(derived)]
                  /\ LastIndexOf(cmpCall.input_path, 47) > 0 => written = derived
                  /\ cmpCall.cwd = <<>> => written = derived
        /\ cmpResult.kind = "ok" =>
              /\ cmpWritten.some
              /\ cmpResult.output_path = cmpWritten.list

(***************************************************************************)
(* C20: the arguments of compress_video                                    *)
(***************************************************************************)

\* the argument that follows the option opt in argv, None when argv has no opt
OptionValue(argv, opt) ==
    IF \E i \in 1..(Len(argv) - 1) : argv[i] = opt
    THEN Some(argv[(CHOOSE i \in 1..(Len(argv) - 1) : argv[i] = opt) + 1])
    ELSE None

\* C20: for every quality level compress_video gives ffmpeg, as -crf and
\* -preset, the crf and the preset of
\* CompressionLevel::from_u8(level).video_crf(), and its arguments are a
\* function of the input path and the level alone
C20_VideoArgsFromLookupTable ==
    cmpCall.op = "compress_video" =>
        /\ OptionValue(cmpArgv, ArgCrf)
              = Some(to_string(video_crf(from_u8(cmpCall.quality_level)).crf))
        /\ OptionValue(cmpArgv, ArgPreset)
              = Some(video_crf(from_u8(cmpCall.quality_level)).preset)
        /\ cmpArgv = <<NameFfmpeg>>
                        \o compress_video_args(cmpCall.input_path, cmpCall.quality_level)

\* what holds of every call: the arguments are a function of the input path
\* and the level, -crf is the crf of the table at every level but 0, where
\* none is given, and -preset is the preset of the table at every level but
\* 1 and 4
C20_HoldsOffLevels014 ==
    cmpCall.op = "compress_video" =>
        /\ cmpArgv = <<NameFfmpeg>>
                        \o compress_video_args(cmpCall.input_path, cmpCall.quality_level)
        /\ cmpCall.quality_level # 0 =>
              OptionValue(cmpArgv, ArgCrf)
                  = Some(to_string(video_crf(from_u8(cmpCall.quality_level)).crf))
        /\ cmpCall.quality_level = 0 => OptionValue(cmpArgv, ArgCrf) = None
        /\ cmpCall.quality_level \notin {1, 4} =>
              OptionValue(cmpArgv, ArgPreset)
                  = Some(video_crf(from_u8(cmpCall.quality_level)).preset)
        /\ cmpCall.quality_level \in {1, 4} => OptionValue(cmpArgv, ArgPreset) = Some(StrMedium)

(***************************************************************************)
(* C21: the size estimators                                                *)
(***************************************************************************)

Estimators == {"estimate_pdf_compressed_size", "estimate_video_compressed_size"}

\* the estimator of a name, applied to a file and a level
EstimatorCall(fn, file, quality_level) ==
    IF fn = "estimate_pdf_compressed_size"
    THEN estimate_pdf_compressed_size(file, quality_level)
    ELSE estimate_video_compressed_size(file, quality_level)

\* C21: the two size estimators return for every u8 level; they fail only
\* when the size of the file cannot be read, never because of the level, and
\* for every level outside 0..4 they return what they return for level 2 on
\* the same file, half of its size
C21_EstimatorsTotalWithHighQualityFallback ==
    lookupOut.fn \in Estimators =>
        /\ lookupOut.value.kind = "ok" <=> lookupOut.file.exists
        /\ lookupOut.value.kind = "err" <=> ~lookupOut.file.exists
        /\ (lookupOut.file.exists /\ level \notin 0..4) =>
              /\ lookupOut.value = EstimatorCall(lookupOut.fn, lookupOut.file, 2)
              /\ lookupOut.value.msg = lookupOut.file.len \div 2

\* the PDF estimator was called with level 255 on a file of 90 bytes and
\* returned 45, where level 3 returns 27
C21_Witness ==
    /\ level = U8Max
    /\ lookupOut.fn = "estimate_pdf_compressed_size"
    /\ lookupOut.file = [exists |-> TRUE, len |-> 90]
    /\ lookupOut.value = [kind |-> "ok", msg |-> 45]
    /\ estimate_pdf_compressed_size(lookupOut.file, 3).msg = 27

(***************************************************************************)
(* C22: the two processes of video_to_gif                                  *)
(***************************************************************************)

\* the call has ended at its palette step: the palette process could not be
\* spawned or exited non-zero
PaletteStepFailed ==
    /\ gifPc = "done"
    /\ gifResult.msg \in {"Failed to generate palette: {}", "Palette generation error: {}"}

\* the order of the two processes: the GIF process is the second process of a
\* call, the closure comes to its spawn only by a successful exit of the
\* palette process, and a palette process that cannot be spawned or exits
\* non-zero ends the call with an error before any GIF process
GifAfterPalette ==
    /\ [](/\ Len(gifProcs) <= 2
          /\ Len(gifProcs) >= 1 => gifProcs[1] = palette_args(gifCall)
          /\ Len(gifProcs) = 2 => gifProcs[2] = gif_args(gifCall)
          /\ gifPc \in {"palette", "palette_wait"} => Len(gifProcs) = IF gifPc = "palette" THEN 0 ELSE 1
          /\ PaletteStepFailed => gifResult.kind = "err" /\ Len(gifProcs) <= 1)
    /\ [][/\ gifPc' = "gif" =>
                /\ gifPc = "palette_wait"
                /\ \E st \in ExitStatuses, wrote \in BOOLEAN : success(st) /\ GifToolExit(st, wrote)
          /\ Len(gifProcs') > Len(gifProcs) => gifPc = IF Len(gifProcs) = 0 THEN "palette" ELSE "gif"
          /\ (gifPc = "palette" /\ GifSpawnFail) => PaletteStepFailed'
          /\ (gifPc = "palette_wait" /\ gifPc' # "gif") => PaletteStepFailed']_vars

\* C22: in video_to_gif the GIF process is spawned only after the palette
\* process has exited successfully; when the palette process cannot be spawned
\* or exits non-zero the operation returns an error, the GIF process is never
\* spawned and the output path is not written.
C22_GifOnlyAfterPalette ==
    /\ GifAfterPalette
    /\ [](PaletteStepFailed => gifDisk[gifCall.output_path] = "untouched")

\* C22, what holds: the order of the processes and the error for every call,
\* and the untouched output path for every call whose output_path is not the
\* path the palette is kept at
C22_HoldsOffThePalettePath ==
    /\ GifAfterPalette
    /\ [](PaletteStepFailed /\ gifCall.output_path # gif_palette_path
             => gifDisk[gifCall.output_path] = "untouched")

(***************************************************************************)
(* C23: the private lookups and the CompressionLevel tables                *)
(***************************************************************************)

\* C23: for every u8 level, get_crf_value(level) is the crf of
\* CompressionLevel::from_u8(level).video_crf() and
\* get_ghostscript_settings(level) is
\* CompressionLevel::from_u8(level).ghostscript_settings(): the value either
\* private lookup returns for the level at hand is the value of the table.
C23_PrivateLookupsAgreeWithTables ==
    /\ get_crf_value(level) = video_crf(from_u8(level)).crf
    /\ get_ghostscript_settings(level) = ghostscript_settings(from_u8(level))
    /\ lookupOut.fn = "get_crf_value" => lookupOut.value = video_crf(from_u8(level)).crf
    /\ lookupOut.fn = "get_ghostscript_settings" =>
          lookupOut.value = ghostscript_settings(from_u8(level))

C23_Witness ==
    /\ level = 5
    /\ lookupOut.fn = "get_crf_value"
    /\ lookupOut.value = 23
    /\ ghostscript_settings(from_u8(level)) = "/printer"

(***************************************************************************)
(* C24: the derived output path is not the input path                      *)
(***************************************************************************)

\* the output path a compress call derives from its input path
DerivedOutputPath(call) ==
    CASE call.op = "compress_image" ->
            generate_output_path(call.input_path, StrCompressed,
                                 compress_image_extension(call.output_format))
      [] call.op = "compress_pdf" -> compress_pdf_output_path(call.input_path)
      [] call.op = "compress_video" -> compress_video_output_path(call.input_path)

\* C24: the output path compress_image, compress_pdf and compress_video derive
\* is never the input path, neither as a string nor as the file it names in
\* the working directory of the process; the file a call writes and the
\* output_path it returns are not the file it reads.
C24_OutputIsNotTheInput ==
    cmpCall.op # "none" =>
        /\ DerivedOutputPath(cmpCall) # cmpCall.input_path
        /\ Location(DerivedOutputPath(cmpCall), cmpCall.cwd)
              # Location(cmpCall.input_path, cmpCall.cwd)
        /\ cmpWritten.some =>
              /\ cmpWritten.list = DerivedOutputPath(cmpCall)
              /\ cmpWritten.list # cmpCall.input_path
        /\ cmpResult.kind = "ok" => cmpResult.output_path # cmpCall.input_path

\* compress_image of "/v/pic_compressed.jpg" to jpg has written
\* "/v/pic_compressed_compressed.jpg"
C24_Witness ==
    /\ cmpCall.op = "compress_image"
    /\ cmpCall.input_path = <<47, 118, 47, 112, 105, 99, 95>> \o StrCompressed \o <<46, 106, 112, 103>>
    /\ cmpCall.output_format = StrJpg
    /\ cmpWritten.some
    /\ cmpWritten.list = <<47, 118, 47, 112, 105, 99, 95>> \o StrCompressed \o <<95>>
                             \o StrCompressed \o <<46, 106, 112, 103>>
    /\ cmpResult.kind = "ok"

(***************************************************************************)
(* C25: the directory of the derived output path                           *)
(***************************************************************************)

\* the directory of the file a path names in a process with the working
\* directory cwd
DirectoryOf(path, cwd) ==
    LET file == Location(path, cwd)
    IN  SubSeq(file, 1, Len(file) - 1)

\* C25: the derived output path lies in the directory of the input file, for
\* every input path that names a file: also for a bare relative file name and
\* for a file directly under the root directory.
C25_OutputInDirectoryOfInput ==
    (cmpCall.op # "none" /\ file_name(cmpCall.input_path) # None) =>
        DirectoryOf(DerivedOutputPath(cmpCall), cmpCall.cwd)
            = DirectoryOf(cmpCall.input_path, cmpCall.cwd)

\* C25, what holds: the directory is the input's for every input path with a
\* directory part, a file directly under the root directory among them (the
\* doubled separator of "//clip_compressed.mp4" names the root directory), and
\* for a bare file name when the working directory is the root directory
C25_HoldsOffBareNames ==
    (cmpCall.op # "none" /\ file_name(cmpCall.input_path) # None
        /\ (LastIndexOf(cmpCall.input_path, 47) > 0 \/ cmpCall.cwd = <<>>)) =>
        DirectoryOf(DerivedOutputPath(cmpCall), cmpCall.cwd)
            = DirectoryOf(cmpCall.input_path, cmpCall.cwd)

(***************************************************************************)
(* C26: a call that fails on its input or its parameter writes nothing     *)
(***************************************************************************)

\* the operations of C26
FailFastOps ==
    {"rotate_image", "flip_image", "convert_image", "crop_image", "strip_metadata",
     "compress_image", "rotate_pdf", "merge_pdfs", "merge_pdfs_with_pages"}

\* the errors of an input that cannot be opened and of a parameter that is not
\* supported
InputOrParamErrors ==
    {"Failed to open image: {}", "Failed to load PDF: {}", "Failed to load PDF {}: {}",
     "Only 90, 180, and 270 degree rotations are supported",
     "Direction must be 'horizontal' or 'vertical'", "Unsupported format: {}"}

\* an input of the call cannot be opened: the one input, or one of the listed
\* PDFs of a merge
SomeInputUnreadable(call) ==
    CASE call.op = "merge_pdfs" ->
            \E i \in 1..Len(call.input_paths) : call.input_paths[i].kind = "bad"
      [] call.op = "merge_pdfs_with_pages" ->
            \E i \in 1..Len(call.page_selections) :
                call.page_selections[i].pdf_path.kind = "bad"
      [] OTHER -> call.input.kind = "bad"

\* C26: when rotate_image, flip_image, convert_image, crop_image,
\* strip_metadata, compress_image, rotate_pdf, merge_pdfs or
\* merge_pdfs_with_pages fails because an input cannot be opened (for a merge:
\* any one of the listed PDFs, also after others have loaded) or because a
\* parameter is not supported, no output file is created or modified: the call
\* that has an unreadable input returns such an error, and the step of a call
\* that returns such an error leaves the file at the output path as it was.
C26_FailedCallWritesNothing ==
    /\ [](libCall.op \in FailFastOps =>
             /\ SomeInputUnreadable(libCall) =>
                   /\ libResult.kind = "err"
                   /\ libResult.msg \in InputOrParamErrors
             /\ (libResult.kind = "err" /\ libResult.msg \in InputOrParamErrors) => ~libWrote)
    /\ [][(/\ libCall = NoCall
           /\ libCall'.op \in FailFastOps
           /\ libResult'.kind = "err"
           /\ libResult'.msg \in InputOrParamErrors) => libOutput' = libOutput]_vars

\* merge_pdfs of a PDF that loads and one that does not, with an older file at
\* the output path: the error, and the older file still there
C26_Witness ==
    /\ libCall.op = "merge_pdfs"
    /\ Len(libCall.input_paths) = 2
    /\ libCall.input_paths[1].kind = "pdf"
    /\ libCall.input_paths[2].kind = "bad"
    /\ libResult = OpErr("Failed to load PDF {}: {}")
    /\ libOutput = OldFile
    /\ ~libWrote

(***************************************************************************)
(* C27, C28: the pages rotate_pdf rotates and the value it gives them      *)
(***************************************************************************)

\* whether a call of rotate_pdf selects the page of a number
PageSelected(page_numbers, page_num) ==
    ~page_numbers.some
    \/ \E i \in 1..Len(page_numbers.list) : page_numbers.list[i] = page_num

\* a call of rotate_pdf has saved its document
RotatePdfSaved ==
    /\ libCall.op = "rotate_pdf"
    /\ libResult.kind = "ok"

\* C27: rotate_pdf changes only the selected pages.  With page_numbers =
\* Some(list) exactly the pages whose number is in the list have their Rotate
\* entry set and every other page is as it was in the input; a listed number
\* that is no page of the document is ignored without error; with None every
\* page has the entry set.
C27_OnlySelectedPagesRotated ==
    libCall.op = "rotate_pdf" =>
        /\ libCall.input.kind = "pdf" =>
              libResult \in {OpOk("PDF rotated successfully"),
                             OpErr("Failed to save rotated PDF: {}")}
        /\ libResult.kind = "ok" =>
              /\ libWrote
              /\ libOutput.kind = "pdf"
              /\ Len(libOutput.pages) = Len(libCall.input.pages)
              /\ \A page_num \in 1..Len(libCall.input.pages) :
                    IF PageSelected(libCall.page_numbers, page_num)
                    THEN libOutput.pages[page_num].set
                    ELSE libOutput.pages[page_num] = libCall.input.pages[page_num]

\* a document of two pages, the second with Rotate 90, rotated by 180 with the
\* list [3, 1]: page 1 is rotated, page 2 is as it was, 3 is ignored
C27_Witness ==
    /\ RotatePdfSaved
    /\ libCall.input.pages = <<NoRotate, Rotate(90)>>
    /\ libCall.degrees = 180
    /\ libCall.page_numbers = Some(<<3, 1>>)
    /\ libOutput.pages = <<Rotate(180), Rotate(90)>>

\* degrees % 360 in Rust, for the degrees drawn
RemainderOfDegrees(degrees) ==
    CASE degrees = -90 -> -90
      [] degrees = 0   -> 0
      [] degrees = 45  -> 45
      [] degrees = 90  -> 90
      [] degrees = 180 -> 180
      [] degrees = 270 -> 270
      [] degrees = 360 -> 0
      [] degrees = 450 -> 90

\* the pages a call of rotate_pdf on a document would save
PagesAfter(file, degrees, page_numbers) == rotate_pdf(file, degrees, page_numbers, TRUE).file.pages

\* the page selections of a further call: every page, or a list of at most
\* one number
FurtherSelections == {sel \in PageSelections : Len(sel.list) <= 1}

\* C28: rotate_pdf sets the Rotate entry of a selected page to degrees % 360
\* (the remainder of Rust, with the sign of degrees), whatever rotation the
\* page had; the same call applied to the saved document saves the same
\* document again; and after any further call the Rotate entry of a page that
\* call selects is the same whether it is applied to the saved document or to
\* the input of the first call.
C28_RotateSetNotAdded ==
    RotatePdfSaved =>
        /\ \A page_num \in 1..Len(libOutput.pages) :
              PageSelected(libCall.page_numbers, page_num) =>
                  libOutput.pages[page_num] = Rotate(RemainderOfDegrees(libCall.degrees))
        /\ PagesAfter(libOutput, libCall.degrees, libCall.page_numbers) = libOutput.pages
        /\ \A degrees \in DegreesSamples, page_numbers \in FurtherSelections :
              \A page_num \in 1..Len(libOutput.pages) :
                  PageSelected(page_numbers, page_num) =>
                      /\ PagesAfter(libOutput, degrees, page_numbers)[page_num]
                            = PagesAfter(libCall.input, degrees, page_numbers)[page_num]
                      /\ PagesAfter(libOutput, degrees, page_numbers)[page_num]
                            = Rotate(RemainderOfDegrees(degrees))

\* a page with Rotate 90 rotated by -90 has Rotate -90, not 0 and not 270
C28_Witness ==
    /\ RotatePdfSaved
    /\ libCall.input.pages = <<Rotate(90)>>
    /\ libCall.degrees = -90
    /\ libCall.page_numbers = None
    /\ libOutput.pages = <<Rotate(-90)>>

(***************************************************************************)
(* C29: the quality parameters are monotone in the level                   *)
(***************************************************************************)

\* the ordinals of the five tiers
Tiers == 0..4

\* C29: over the levels 0..4 jpeg_quality strictly decreases (100, 95, 85,
\* 70, 50) and the video CRF strictly increases (0, 17, 23, 28, 35); for
\* every u8 level, after the fallback, jpeg_quality is within 1..100 and the
\* CRF within 0..51, and so is the value a lookup has returned.
C29_QualityMonotoneAndInRange ==
    /\ <<jpeg_quality(from_u8(0)), jpeg_quality(from_u8(1)), jpeg_quality(from_u8(2)),
         jpeg_quality(from_u8(3)), jpeg_quality(from_u8(4))>> = <<100, 95, 85, 70, 50>>
    /\ <<get_crf_value(0), get_crf_value(1), get_crf_value(2), get_crf_value(3),
         get_crf_value(4)>> = <<0, 17, 23, 28, 35>>
    /\ \A a \in Tiers, b \in Tiers :
          a < b =>
              /\ jpeg_quality(from_u8(a)) > jpeg_quality(from_u8(b))
              /\ get_crf_value(a) < get_crf_value(b)
              /\ video_crf(from_u8(a)).crf < video_crf(from_u8(b)).crf
    /\ jpeg_quality(from_u8(level)) \in 1..100
    /\ get_crf_value(level) \in 0..51
    /\ video_crf(from_u8(level)).crf \in 0..51
    /\ lookupOut.fn = "jpeg_quality" =>
          /\ lookupOut.value \in 1..100
          /\ level \in Tiers => lookupOut.value = <<100, 95, 85, 70, 50>>[level + 1]
    /\ lookupOut.fn = "get_crf_value" =>
          /\ lookupOut.value \in 0..51
          /\ level \in Tiers => lookupOut.value = <<0, 17, 23, 28, 35>>[level + 1]

\* the quality looked up for a level past the tiers is that of the fallback
C29_Witness ==
    /\ level = U8Max
    /\ lookupOut = [fn |-> "jpeg_quality", value |-> 85]
    /\ get_crf_value(level) = 23

(***************************************************************************)
(* C30: the metadata window                                                *)
(***************************************************************************)

\* the handler runs in this step
HandlerRuns == winPc = "invoked" /\ winPc' = "done"

\* C30: after any sequence of open_metadata_window calls at most one window
\* labelled "metadata" exists.  A call builds the window only when none
\* exists, and otherwise shows and focuses the one there is; a call that
\* returns Ok has emitted exactly one "metadata-update" event, to the metadata
\* window, with the metadata of that call; and a call made when neither a
\* metadata window nor the main window exists fails with "Main window not
\* found" and creates nothing.
C30_OneMetadataWindow ==
    /\ [](/\ winOpen["metadata"] <= 1
          /\ winResult.kind = "ok" =>
                /\ winEmitted = <<MetadataUpdate(winCall.metadata)>>
                /\ winTrace \in {<<"show", "set_focus", "emit">>, <<"build", "sleep", "emit">>})
    /\ [][HandlerRuns =>
             /\ winOpen'["metadata"] > winOpen["metadata"] =>
                   /\ winOpen["metadata"] = 0
                   /\ winTrace'[1] = "build"
             /\ winOpen["metadata"] > 0 =>
                   /\ winOpen' = winOpen
                   /\ winTitle' = winTitle
                   /\ winResult'.kind = "ok" => winTrace' = <<"show", "set_focus", "emit">>
             /\ (winOpen["metadata"] = 0 /\ winResult'.kind = "ok") =>
                   /\ winOpen'["metadata"] = 1
                   /\ winTitle' = winCall.window_title
             /\ (winOpen["metadata"] = 0 /\ winOpen["main"] = 0) =>
                   /\ winResult' = OpErr("Main window not found")
                   /\ winOpen' = winOpen
                   /\ winTrace' = <<>>
                   /\ winEmitted' = <<>>]_vars

\* a second call, with other metadata, has found the window of the first and
\* has shown it, focused it and emitted its own metadata to it
C30_Witness ==
    /\ winPc = "done"
    /\ winCall = [metadata |-> "{pdf}", window_title |-> "PDF Metadata"]
    /\ winOpen["metadata"] = 1
    /\ winTitle = "Image Metadata"
    /\ winResult.kind = "ok"
    /\ winTrace = <<"show", "set_focus", "emit">>
    /\ winEmitted = <<MetadataUpdate("{pdf}")>>

====
